---- MODULE Spec2Model ----
(***************************************************************************)
(* GPU-Scraper: the listing standardizer (src/data/standardizer.py), the   *)
(* orchestrator that drives it (src/src/main.py) and the Facebook scraper  *)
(* (src/scrapers/facebook_scraper.py, src/scrapers/base_scraper.py).       *)
(*                                                                         *)
(* Text is a TLA+ string; the character at position i is SubSeq(s, i, i).  *)
(* An Optional[T] of the source is a sequence: <<>> is None, <<x>> is x.   *)
(* A float is the integer number of its hundredths (0.9 is 90, 1450.0 is   *)
(* 145000): every float of the program has at most two decimals.           *)
(***************************************************************************)
EXTENDS Integers, Sequences, FiniteSets, TLC

VARIABLES
    pc,                     \* position of the running call or loop
    title, description,     \* arguments of extract_gpu_info
    gpu_info,               \* its return value (Optional[GPUInfo])
    raw_listing,            \* argument of standardize_listing
    result,                 \* outcome of standardize_listing
    raw_listings,           \* argument of standardize_data
    idx,                    \* listings of raw_listings already iterated
    standardized_listings,  \* the list standardize_data builds
    argument,               \* argument of a helper method called on its own
    self,                   \* the standardizer's fields that calls share
    calls,                  \* frames of the calls that run concurrently
    events,                 \* what the orchestrator has invoked, in order
    session                 \* the HTTP session of a scraper

\* the variables of the concurrent calls, the orchestrator and the scrapers
others == <<self, calls, events, session>>

vars == <<pc, title, description, gpu_info, raw_listing, result,
          raw_listings, idx, standardized_listings, argument, others>>

(***************************************************************************)
(* Characters and the str methods the standardizer uses.                   *)
(***************************************************************************)
UPPER == "ABCDEFGHIJKLMNOPQRSTUVWXYZ"
LOWER == "abcdefghijklmnopqrstuvwxyz"
DIGITS == "0123456789"

Ch(s, i) == SubSeq(s, i, i)

CharsOf(s) == {Ch(s, i) : i \in 1..Len(s)}

UpperChars == CharsOf(UPPER)
LowerChars == CharsOf(LOWER)
DigitChars == CharsOf(DIGITS)
SpaceChars == {" ", "\t"}

ToLower == [c \in UpperChars |-> Ch(LOWER, CHOOSE k \in 1..Len(UPPER) : Ch(UPPER, k) = c)]
ToUpper == [c \in LowerChars |-> Ch(UPPER, CHOOSE k \in 1..Len(LOWER) : Ch(LOWER, k) = c)]

IsSpace(c) == c \in SpaceChars
IsDigit(c) == c \in DigitChars
IsAlpha(c) == c \in UpperChars \/ c \in LowerChars
IsWord(c) == IsAlpha(c) \/ IsDigit(c) \/ c = "_"

LowerChar(c) == IF c \in UpperChars THEN ToLower[c] ELSE c
UpperChar(c) == IF c \in LowerChars THEN ToUpper[c] ELSE c

RECURSIVE MapLower(_, _)
MapLower(s, i) == IF i > Len(s) THEN "" ELSE LowerChar(Ch(s, i)) \o MapLower(s, i + 1)

\* str.lower()
Lower(s) == MapLower(s, 1)

RECURSIVE MapUpper(_, _)
MapUpper(s, i) == IF i > Len(s) THEN "" ELSE UpperChar(Ch(s, i)) \o MapUpper(s, i + 1)

\* str.upper()
Upper(s) == MapUpper(s, 1)

RECURSIVE MapTitle(_, _)
MapTitle(s, i) ==
    IF i > Len(s) THEN ""
    ELSE (IF i > 1 /\ IsAlpha(Ch(s, i - 1)) THEN LowerChar(Ch(s, i)) ELSE UpperChar(Ch(s, i)))
         \o MapTitle(s, i + 1)

\* str.title(): a letter that follows a letter is lowercased, any other is uppercased
Title(s) == MapTitle(s, 1)

RECURSIVE LStrip(_)
LStrip(s) == IF Len(s) > 0 /\ IsSpace(Ch(s, 1)) THEN LStrip(SubSeq(s, 2, Len(s))) ELSE s

RECURSIVE RStrip(_)
RStrip(s) == IF Len(s) > 0 /\ IsSpace(Ch(s, Len(s))) THEN RStrip(SubSeq(s, 1, Len(s) - 1)) ELSE s

\* str.strip()
Strip(s) == RStrip(LStrip(s))

\* s[i:].startswith(lit)
StartsAt(s, i, lit) == i + Len(lit) - 1 <= Len(s) /\ SubSeq(s, i, i + Len(lit) - 1) = lit

\* lit in s
Contains(s, lit) == \E i \in 1..(Len(s) - Len(lit) + 1) : StartsAt(s, i, lit)

(***************************************************************************)
(* re.search over the pattern catalog.  A pattern is a sequence of atoms;  *)
(* the atoms are the regular-expression constructs the catalog uses.  An   *)
(* atom takes the longest piece it can and is not re-entered: in every     *)
(* pattern of the catalog a repetition (of spaces, digits or a group) is   *)
(* followed by something that none of the characters it repeats can start, *)
(* so the regex engine's backtracking never finds a match that the first   *)
(* attempt misses, nor a different group.                                  *)
(***************************************************************************)
Lit(v) == [k |-> "lit", v |-> v]                 \* literal text
Ws0 == [k |-> "ws0"]                             \* \s*
Ws1 == [k |-> "ws1"]                             \* \s+
Dig(n) == [k |-> "dig", n |-> n]                 \* \d{n}
Digs1 == [k |-> "digs1"]                         \* \d+
Digs0 == [k |-> "digs0"]                         \* \d*
Wb == [k |-> "wb"]                               \* \b
Grp(g, sub) == [k |-> "grp", g |-> g, sub |-> sub]   \* ( ... ), group number g
NonCap(sub) == [k |-> "seq", sub |-> sub]        \* (?: ... )
Opt(sub) == [k |-> "opt", sub |-> sub]           \* ( ... )?
Star(sub) == [k |-> "star", sub |-> sub]         \* ( ... ) repeated
Alt(subs) == [k |-> "alt", subs |-> subs]        \* a|b|...

\* A match in progress: pos is the next text position, lastindex and the
\* groups are those of re.Match (a group that did not take part is "").
MatchStart(i) == [ok |-> TRUE, pos |-> i, lastindex |-> 0, group1 |-> "", group2 |-> ""]
NoMatch == [ok |-> FALSE, pos |-> 0, lastindex |-> 0, group1 |-> "", group2 |-> ""]

RECURSIVE SpanEnd(_, _, _)
\* the position after the longest run of characters of class cls from i
SpanEnd(s, i, cls) == IF i <= Len(s) /\ Ch(s, i) \in cls THEN SpanEnd(s, i + 1, cls) ELSE i

AtWordBoundary(s, i) ==
    LET before == i > 1 /\ IsWord(Ch(s, i - 1))
        after == i <= Len(s) /\ IsWord(Ch(s, i))
    IN before # after

RECURSIVE MatchSeq(_, _, _)
RECURSIVE MatchAtom(_, _, _)
RECURSIVE MatchAlt(_, _, _)
RECURSIVE MatchStar(_, _, _)

\* the first attempt if it matched, else the other
OrElse(r, other) == IF r.ok THEN r ELSE other

\* the match m moved on to position e, which must lie after position least
Advance(m, e, least) == IF e >= least THEN [m EXCEPT !.pos = e] ELSE NoMatch

\* the match r of a group's content, with the group g set to what it spans
Capture(g, r, s, from) ==
    IF ~r.ok THEN NoMatch
    ELSE IF g = 1 THEN [r EXCEPT !.group1 = SubSeq(s, from, r.pos - 1), !.lastindex = 1]
    ELSE [r EXCEPT !.group2 = SubSeq(s, from, r.pos - 1), !.lastindex = 2]

MatchAlt(subs, s, m) ==
    IF subs = <<>> THEN NoMatch
    ELSE OrElse(MatchSeq(Head(subs), s, m), MatchAlt(Tail(subs), s, m))

\* r is one more round of sub after m: go on while a round takes something
Repeat(r, sub, s, m) == IF r.ok /\ r.pos > m.pos THEN MatchStar(sub, s, r) ELSE m

MatchStar(sub, s, m) == Repeat(MatchSeq(sub, s, m), sub, s, m)

MatchAtom(a, s, m) ==
    CASE a.k = "lit" ->
            IF StartsAt(s, m.pos, a.v) THEN [m EXCEPT !.pos = m.pos + Len(a.v)] ELSE NoMatch
      [] a.k = "ws0" -> Advance(m, SpanEnd(s, m.pos, SpaceChars), m.pos)
      [] a.k = "ws1" -> Advance(m, SpanEnd(s, m.pos, SpaceChars), m.pos + 1)
      [] a.k = "dig" ->
            IF SpanEnd(s, m.pos, DigitChars) >= m.pos + a.n
            THEN [m EXCEPT !.pos = m.pos + a.n] ELSE NoMatch
      [] a.k = "digs1" -> Advance(m, SpanEnd(s, m.pos, DigitChars), m.pos + 1)
      [] a.k = "digs0" -> Advance(m, SpanEnd(s, m.pos, DigitChars), m.pos)
      [] a.k = "wb" -> IF AtWordBoundary(s, m.pos) THEN m ELSE NoMatch
      [] a.k = "seq" -> MatchSeq(a.sub, s, m)
      [] a.k = "grp" -> Capture(a.g, MatchSeq(a.sub, s, m), s, m.pos)
      [] a.k = "opt" -> OrElse(MatchSeq(a.sub, s, m), m)
      [] a.k = "star" -> MatchStar(a.sub, s, m)
      [] a.k = "alt" -> MatchAlt(a.subs, s, m)

\* the rest of the pattern after the atom that gave r
Continue(r, rest, s) == IF r.ok THEN MatchSeq(rest, s, r) ELSE NoMatch

MatchSeq(pat, s, m) ==
    IF pat = <<>> THEN m ELSE Continue(MatchAtom(Head(pat), s, m), Tail(pat), s)

RECURSIVE SearchFrom(_, _, _)
SearchFrom(pat, s, i) ==
    IF i > Len(s) + 1 THEN NoMatch
    ELSE OrElse(MatchSeq(pat, s, MatchStart(i)), SearchFrom(pat, s, i + 1))

\* re.search(pattern, s): the match at the leftmost position that has one
Search(pat, s) == SearchFrom(pat, s, 1)

(***************************************************************************)
(* The pattern catalog of GPUDataStandardizer.__init__.  A dict of the     *)
(* source is a sequence here, in the dict's insertion order, which is the  *)
(* order Python iterates it in.                                            *)
(***************************************************************************)
\* (?:\s*ti)?
OptTi == Opt(<<Ws0, Lit("ti")>>)

\* \s*(xt|gre)?
OptSuffix == <<Ws0, Opt(<<Grp(2, <<Alt(<<<<Lit("xt")>>, <<Lit("gre")>>>>)>>)>>)>>

\* (a\d{3}|b\d{3})
ArcModel == Grp(1, <<Alt(<<<<Lit("a"), Dig(3)>>, <<Lit("b"), Dig(3)>>>>)>>)

nvidia_patterns == <<
    [pattern |-> <<Lit("rtx"), Ws0, Lit("50"), Grp(1, <<Dig(2)>>)>>,
     manufacturer |-> "NVIDIA", series |-> "RTX 50", model_template |-> <<"50", "{group1}">>],
    [pattern |-> <<Lit("rtx"), Ws0, Lit("40"), Grp(1, <<Dig(2)>>), OptTi>>,
     manufacturer |-> "NVIDIA", series |-> "RTX 40", model_template |-> <<"40", "{group1}">>],
    [pattern |-> <<Lit("rtx"), Ws0, Lit("4"), Grp(1, <<Dig(3)>>), OptTi>>,
     manufacturer |-> "NVIDIA", series |-> "RTX 40", model_template |-> <<"4", "{group1}">>],
    [pattern |-> <<Lit("rtx"), Ws0, Lit("30"), Grp(1, <<Dig(2)>>), OptTi>>,
     manufacturer |-> "NVIDIA", series |-> "RTX 30", model_template |-> <<"30", "{group1}">>],
    [pattern |-> <<Lit("rtx"), Ws0, Lit("3"), Grp(1, <<Dig(3)>>), OptTi>>,
     manufacturer |-> "NVIDIA", series |-> "RTX 30", model_template |-> <<"3", "{group1}">>],
    [pattern |-> <<Lit("geforce"), Ws0, Lit("rtx"), Ws0, Grp(1, <<Dig(4)>>), OptTi>>,
     manufacturer |-> "NVIDIA", series |-> "RTX", model_template |-> <<"{group1}">>] >>

amd_patterns == <<
    [pattern |-> <<Lit("rx"), Ws0, Lit("7"), Grp(1, <<Dig(3)>>)>> \o OptSuffix,
     manufacturer |-> "AMD", series |-> "RX 7000",
     model_template |-> <<"7", "{group1}", "{group2}">>],
    [pattern |-> <<Lit("radeon"), Ws0, Lit("rx"), Ws0, Lit("7"), Grp(1, <<Dig(3)>>)>> \o OptSuffix,
     manufacturer |-> "AMD", series |-> "RX 7000",
     model_template |-> <<"7", "{group1}", "{group2}">>],
    [pattern |-> <<Lit("rx"), Ws0, Lit("6"), Grp(1, <<Dig(3)>>)>> \o OptSuffix,
     manufacturer |-> "AMD", series |-> "RX 6000",
     model_template |-> <<"6", "{group1}", "{group2}">>],
    [pattern |-> <<Lit("radeon"), Ws0, Lit("rx"), Ws0, Lit("6"), Grp(1, <<Dig(3)>>)>> \o OptSuffix,
     manufacturer |-> "AMD", series |-> "RX 6000",
     model_template |-> <<"6", "{group1}", "{group2}">>] >>

intel_patterns == <<
    [pattern |-> <<Lit("arc"), Ws0, ArcModel>>,
     manufacturer |-> "Intel", series |-> "Arc", model_template |-> <<"{group1}">>],
    [pattern |-> <<Lit("intel"), Ws0, Lit("arc"), Ws0, ArcModel>>,
     manufacturer |-> "Intel", series |-> "Arc", model_template |-> <<"{group1}">>] >>

vram_patterns == <<
    <<Grp(1, <<Digs1>>), Ws0, Lit("gb"), Ws0, Lit("vram")>>,
    <<Grp(1, <<Digs1>>), Ws0, Lit("gb"), Opt(<<Ws0, Lit("gddr"), Digs0>>)>>,
    <<Grp(1, <<Digs1>>), Lit("gb")>>,
    <<Lit("vram:"), Ws0, Grp(1, <<Digs1>>), Ws0, Lit("gb")>> >>

\* \bname\b
Word(name) == <<Wb, Lit(name), Wb>>

\* name\s+line
Line(name, line) == <<Lit(name), Ws1, Lit(line)>>

manufacturer_patterns == <<
    [manufacturer |-> "MSI",
     patterns |-> <<Word("msi"), Line("msi", "gaming"), Line("msi", "ventus")>>],
    [manufacturer |-> "ASUS",
     patterns |-> <<Word("asus"), Line("asus", "rog"), Line("asus", "tuf"), Line("asus", "dual")>>],
    [manufacturer |-> "Gigabyte",
     patterns |-> <<Word("gigabyte"), Line("gigabyte", "gaming"), Line("gigabyte", "aorus")>>],
    [manufacturer |-> "EVGA",
     patterns |-> <<Word("evga"), Line("evga", "ftw"), Line("evga", "sc")>>],
    [manufacturer |-> "Sapphire",
     patterns |-> <<Word("sapphire"), Line("sapphire", "nitro"), Line("sapphire", "pulse")>>],
    [manufacturer |-> "PowerColor",
     patterns |-> <<Word("powercolor"), Line("powercolor", "red")>>],
    [manufacturer |-> "XFX", patterns |-> <<Word("xfx"), Line("xfx", "speedster")>>],
    [manufacturer |-> "Zotac", patterns |-> <<Word("zotac"), Line("zotac", "gaming")>>],
    [manufacturer |-> "Palit", patterns |-> <<Word("palit"), Line("palit", "gamerock")>>],
    [manufacturer |-> "Gainward", patterns |-> <<Word("gainward"), Line("gainward", "phoenix")>>],
    [manufacturer |-> "PNY", patterns |-> <<Word("pny")>>],
    [manufacturer |-> "Inno3D", patterns |-> <<Word("inno3d")>>],
    [manufacturer |-> "Manli", patterns |-> <<Word("manli")>>] >>

(***************************************************************************)
(* GPU identity extraction.                                                *)
(***************************************************************************)
\* the confidence a matched rule gives, in hundredths (0.9)
MATCH_CONFIDENCE == 90

\* the confidence below which standardize_listing rejects, in hundredths (0.3)
MIN_CONFIDENCE == 30

\* the VRAM sanity range, in GB
VRAM_MIN == 1
VRAM_MAX == 24

\* GPUInfo with the confidence score left at the dataclass default
GPUInfoDefaultConfidence(manufacturer, series, model, confidence_score) ==
    [manufacturer |-> manufacturer, series |-> series, model |-> model,
     vram |-> <<>>, card_manufacturer |-> <<>>, confidence_score |-> 0]

\* the dataclass GPUInfo; vram and card_manufacturer default to None
GPUInfo(manufacturer, series, model, confidence_score) ==
    [manufacturer |-> manufacturer, series |-> series, model |-> model,
     vram |-> <<>>, card_manufacturer |-> <<>>, confidence_score |-> confidence_score]

DigitValue == [c \in DigitChars |-> (CHOOSE k \in 1..Len(DIGITS) : Ch(DIGITS, k) = c) - 1]

\* a number above every band the code compares a parsed number with: once the
\* digits read exceed it the number stands for "too large", whatever follows
TOO_LARGE == 1000000

RECURSIVE ParseDigits(_, _)
ParseDigits(s, acc) ==
    IF s = "" \/ acc > TOO_LARGE THEN acc
    ELSE ParseDigits(SubSeq(s, 2, Len(s)), 10 * acc + DigitValue[Ch(s, 1)])

\* int(s) of a string of decimal digits
ParseInt(s) == ParseDigits(s, 0)

RECURSIVE Format(_, _, _)
\* model_template.format(group1=group1, group2=group2)
Format(template, group1, group2) ==
    IF template = <<>> THEN ""
    ELSE (CASE Head(template) = "{group1}" -> group1
            [] Head(template) = "{group2}" -> group2
            [] OTHER -> Head(template))
         \o Format(Tail(template), group1, group2)

RECURSIVE VramFrom(_, _)

\* VramOf giving up at the first shape that matches, in the range or not
VramOfFirstMatch(match, text, k) ==
    IF match.ok
    THEN (IF VRAM_MIN <= ParseInt(match.group1) /\ ParseInt(match.group1) <= VRAM_MAX
          THEN <<ParseInt(match.group1)>>
          ELSE <<>>)
    ELSE VramFrom(text, k + 1)

\* the body of the loop for the pattern k, match being its re.search
VramOf(match, text, k) ==
    IF match.ok /\ VRAM_MIN <= ParseInt(match.group1) /\ ParseInt(match.group1) <= VRAM_MAX
    THEN <<ParseInt(match.group1)>>
    ELSE VramFrom(text, k + 1)

VramFrom(text, k) ==
    IF k > Len(vram_patterns) THEN <<>> ELSE VramOf(Search(vram_patterns[k], text), text, k)

\* re.IGNORECASE: the patterns are in lower case and capture digits only, so
\* they match the text as they match the lowercased text
_extract_vram(text) == VramFrom(Lower(text), 1)

RECURSIVE AnyPattern(_, _, _)
AnyPattern(patterns, text, k) ==
    k <= Len(patterns) /\ (Search(patterns[k], text).ok \/ AnyPattern(patterns, text, k + 1))

RECURSIVE CardFrom(_, _)

\* CardFrom going on past a brand that matches: the last brand that matches wins
CardFromLast(text, k) ==
    IF k > Len(manufacturer_patterns) THEN <<>>
    ELSE IF /\ AnyPattern(manufacturer_patterns[k].patterns, text, 1)
            /\ \A j \in (k + 1)..Len(manufacturer_patterns) :
                  ~AnyPattern(manufacturer_patterns[j].patterns, text, 1)
         THEN <<manufacturer_patterns[k].manufacturer>>
         ELSE CardFrom(text, k + 1)

CardFrom(text, k) ==
    IF k > Len(manufacturer_patterns) THEN <<>>
    ELSE IF AnyPattern(manufacturer_patterns[k].patterns, text, 1)
         THEN <<manufacturer_patterns[k].manufacturer>>
         ELSE CardFrom(text, k + 1)

\* re.IGNORECASE: the patterns are in lower case and the brand returned is the
\* table's, so they match the text as they match the lowercased text
_extract_card_manufacturer(text) == CardFrom(Lower(text), 1)

\* the tail common to the three matchers: "Extract additional info"
WithExtras(info, text) ==
    [info EXCEPT !.vram = _extract_vram(text),
                 !.card_manufacturer = _extract_card_manufacturer(text)]

\* match.group(1) if match.lastindex >= 1 else ''
Group1(match) == IF match.lastindex >= 1 THEN match.group1 ELSE ""

\* match.group(2) if match.lastindex >= 2 else ''
Group2(match) == IF match.lastindex >= 2 THEN match.group2 ELSE ""

\* WithTi looking for 'Ti' as written, in the lowercased text
WithTiCaseSensitive(model, text) == IF Contains(text, "Ti") THEN model \o " Ti" ELSE model

\* WithTi looking for "ti" right after the model number only
WithTiNextToModel(model, text) ==
    IF Contains(text, model \o " ti") THEN model \o " Ti" ELSE model

\* if 'ti' in text: model += ' Ti'
WithTi(model, text) == IF Contains(text, "ti") THEN model \o " Ti" ELSE model

\* NvidiaInfo with the matched group alone as the model, the template left out
NvidiaInfoGroupOnly(rule, match, text) ==
    WithExtras(GPUInfo(rule.manufacturer, rule.series,
                       WithTi(Strip(Group1(match)), text),
                       MATCH_CONFIDENCE),
               text)

NvidiaInfo(rule, match, text) ==
    WithExtras(GPUInfo(rule.manufacturer, rule.series,
                       WithTi(Strip(Format(rule.model_template, Group1(match), Group2(match))),
                              text),
                       MATCH_CONFIDENCE),
               text)

RECURSIVE NvidiaFrom(_, _)

\* the body of the loop for the rule k, match being its re.search
NvidiaOf(match, text, k) ==
    IF match.ok THEN <<NvidiaInfo(nvidia_patterns[k], match, text)>> ELSE NvidiaFrom(text, k + 1)

NvidiaFrom(text, k) ==
    IF k > Len(nvidia_patterns) THEN <<>>
    ELSE NvidiaOf(Search(nvidia_patterns[k].pattern, text), text, k)

RECURSIVE NvidiaDownFrom(_, _)
\* the NVIDIA rules tried from the last declared to the first
NvidiaDownFrom(text, k) ==
    IF k < 1 THEN <<>>
    ELSE IF Search(nvidia_patterns[k].pattern, text).ok
         THEN <<NvidiaInfo(nvidia_patterns[k], Search(nvidia_patterns[k].pattern, text), text)>>
         ELSE NvidiaDownFrom(text, k - 1)

_match_nvidia_patterns_reversed(text) == NvidiaDownFrom(text, Len(nvidia_patterns))

_match_nvidia_patterns(text) == NvidiaFrom(text, 1)

\* f" {match.group(2).upper()}" if match.lastindex >= 2 and match.group(2) else ''
\* Suffix with the suffix left in the case it was matched in
SuffixAsMatched(match) ==
    IF match.lastindex >= 2 /\ match.group2 # "" THEN " " \o match.group2 ELSE ""

Suffix(match) ==
    IF match.lastindex >= 2 /\ match.group2 # "" THEN " " \o Upper(match.group2) ELSE ""

AmdInfo(rule, match, text) ==
    WithExtras(GPUInfo(rule.manufacturer, rule.series,
                       Strip(Format(rule.model_template, Group1(match), Suffix(match))),
                       MATCH_CONFIDENCE),
               text)

RECURSIVE AmdFrom(_, _)

AmdOf(match, text, k) ==
    IF match.ok THEN <<AmdInfo(amd_patterns[k], match, text)>> ELSE AmdFrom(text, k + 1)

AmdFrom(text, k) ==
    IF k > Len(amd_patterns) THEN <<>>
    ELSE AmdOf(Search(amd_patterns[k].pattern, text), text, k)

_match_amd_patterns(text) == AmdFrom(text, 1)

\* IntelInfo with the model left in the case it was matched in
IntelInfoAsMatched(rule, match, text) ==
    WithExtras(GPUInfo(rule.manufacturer, rule.series,
                       Strip(Format(rule.model_template, Group1(match), "")),
                       MATCH_CONFIDENCE),
               text)

IntelInfo(rule, match, text) ==
    WithExtras(GPUInfo(rule.manufacturer, rule.series,
                       Strip(Format(rule.model_template, Upper(Group1(match)), "")),
                       MATCH_CONFIDENCE),
               text)

RECURSIVE IntelFrom(_, _)

IntelOf(match, text, k) ==
    IF match.ok THEN <<IntelInfo(intel_patterns[k], match, text)>> ELSE IntelFrom(text, k + 1)

IntelFrom(text, k) ==
    IF k > Len(intel_patterns) THEN <<>>
    ELSE IntelOf(Search(intel_patterns[k].pattern, text), text, k)

_match_intel_patterns(text) == IntelFrom(text, 1)

\* text = f"{title} {description}".lower()
CombinedText(t, d) == Lower(t \o " " \o d)

\* FirstOf with the AMD identity tried before the NVIDIA one
FirstOfAmdFirst(nvidia, amd, intel) ==
    IF amd # <<>> THEN amd
    ELSE IF nvidia # <<>> THEN nvidia
    ELSE IF intel # <<>> THEN intel
    ELSE <<>>

\* the first of the identities that is not None, in the order they are tried
FirstOf(nvidia, amd, intel) ==
    IF nvidia # <<>> THEN nvidia
    ELSE IF amd # <<>> THEN amd
    ELSE IF intel # <<>> THEN intel
    ELSE <<>>

extract_gpu_info(t, d) ==
    FirstOf(_match_nvidia_patterns(CombinedText(t, d)),
            _match_amd_patterns(CombinedText(t, d)),
            _match_intel_patterns(CombinedText(t, d)))

(***************************************************************************)
(* Price extraction.                                                       *)
(***************************************************************************)
\* the plausible price band, in pounds
PRICE_MIN == 10
PRICE_MAX == 10000

\* (ono|or best offer|obo|neg|negotiable)
price_modifiers ==
    <<Alt(<<<<Lit("ono")>>, <<Lit("or best offer")>>, <<Lit("obo")>>, <<Lit("neg")>>,
            <<Lit("negotiable")>>>>)>>

RECURSIVE SubEmpty(_, _, _)

\* r is the match of pat at position i: it is dropped and the scan goes on after it
SubAt(r, pat, s, i) ==
    IF r.ok /\ r.pos > i THEN SubEmpty(pat, s, r.pos) ELSE Ch(s, i) \o SubEmpty(pat, s, i + 1)

\* re.sub(pat, '', s) from position i
SubEmpty(pat, s, i) ==
    IF i > Len(s) THEN "" ELSE SubAt(MatchSeq(pat, s, MatchStart(i)), pat, s, i)

\* (\d+(?:,\d{3})*(?:\.\d{2})?)
Amount == Grp(1, <<Digs1, Star(<<Lit(","), Dig(3)>>), Opt(<<Lit("."), Dig(2)>>)>>)

price_patterns == <<
    <<Lit("£"), Amount>>,
    <<Amount, Ws0, Lit("£")>>,
    <<Lit("£"), Ws0, Amount>>,
    <<Amount>> >>

RECURSIVE RemoveAll(_, _)
\* s.replace(c, '')
RemoveAll(s, c) ==
    IF s = "" THEN ""
    ELSE (IF Ch(s, 1) = c THEN "" ELSE Ch(s, 1)) \o RemoveAll(SubSeq(s, 2, Len(s)), c)

\* float(price_str), in hundredths: price_str is digits, then perhaps "." and two digits
ParseFloat(price_str) ==
    IF Len(price_str) >= 3 /\ Ch(price_str, Len(price_str) - 2) = "."
    THEN 100 * ParseInt(SubSeq(price_str, 1, Len(price_str) - 3))
         + ParseInt(SubSeq(price_str, Len(price_str) - 1, Len(price_str)))
    ELSE 100 * ParseInt(price_str)

RECURSIVE PriceFrom(_, _)

\* InBand without the upper end of the band
InBandFromBelow(price) == 100 * PRICE_MIN <= price

\* 10 <= price <= 10000, price in hundredths
InBand(price) == 100 * PRICE_MIN <= price /\ price <= 100 * PRICE_MAX

\* PriceOf giving up at the first pattern that matches, in the band or not
PriceOfFirstMatch(match, cleaned, k) ==
    IF match.ok
    THEN (IF InBand(ParseFloat(RemoveAll(match.group1, ",")))
          THEN <<ParseFloat(RemoveAll(match.group1, ","))>>
          ELSE <<>>)
    ELSE PriceFrom(cleaned, k + 1)

\* the body of the loop for the pattern k, match being its re.search
PriceOf(match, cleaned, k) ==
    IF match.ok /\ InBand(ParseFloat(RemoveAll(match.group1, ",")))
    THEN <<ParseFloat(RemoveAll(match.group1, ","))>>
    ELSE PriceFrom(cleaned, k + 1)

PriceFrom(cleaned, k) ==
    IF k > Len(price_patterns) THEN <<>>
    ELSE PriceOf(Search(price_patterns[k], cleaned), cleaned, k)

extract_price(price_text) ==
    IF price_text = "" THEN <<>>
    ELSE PriceFrom(SubEmpty(price_modifiers, Lower(price_text), 1), 1)

(***************************************************************************)
(* Python values of any type, as a raw listing may hold them, and calls    *)
(* that may raise.                                                         *)
(***************************************************************************)
Str(s) == [tag |-> "str", s |-> s]
PyNone == [tag |-> "none", s |-> ""]
PyInt(repr) == [tag |-> "int", s |-> repr]
PyBool(repr) == [tag |-> "bool", s |-> repr]

\* bool(v)
Truthy(v) ==
    CASE v.tag = "str" -> v.s # ""
      [] v.tag = "none" -> FALSE
      [] v.tag = "int" -> v.s # "0"
      [] v.tag = "bool" -> v.s = "True"

\* A raw listing is [kind, fields]: kind "dict" with fields the mapping from
\* the keys present to their values, or another kind, which has no get().
IsMapping(raw) == raw.kind = "dict"

\* raw.get(key, default)
Get(raw, key, default) ==
    IF key \in DOMAIN raw.fields THEN raw.fields[key] ELSE default

\* the outcome of a call: a returned value, or an exception on its way up
Return(v) == [raised |-> FALSE, value |-> v]
Raise == [raised |-> TRUE, value |-> <<>>]

(***************************************************************************)
(* Condition normalization.                                                *)
(***************************************************************************)
condition_map == <<
    [standard_condition |-> "new",
     variants |-> <<"new", "brand new", "sealed", "unopened", "mint">>],
    [standard_condition |-> "like new",
     variants |-> <<"like new", "excellent", "very good", "pristine", "perfect">>],
    [standard_condition |-> "good",
     variants |-> <<"good", "working", "functional", "used - good">>],
    [standard_condition |-> "fair",
     variants |-> <<"fair", "average", "used - fair", "some wear">>],
    [standard_condition |-> "poor",
     variants |-> <<"poor", "damaged", "faulty", "for parts", "spares">>] >>

\* AnyVariant asking for the condition to equal a variant
AnyVariantEqual(variants, condition_lower) ==
    \E k \in 1..Len(variants) : condition_lower = variants[k]

AnyVariant(variants, condition_lower) ==
    \E k \in 1..Len(variants) : Contains(condition_lower, variants[k])

RECURSIVE ConditionFrom(_, _, _)

\* ConditionFrom returning the key of condition_map as it stands, not title-cased
ConditionFromKey(condition, condition_lower, k) ==
    IF k > Len(condition_map) THEN Title(condition)
    ELSE IF AnyVariant(condition_map[k].variants, condition_lower)
         THEN condition_map[k].standard_condition
         ELSE ConditionFrom(condition, condition_lower, k + 1)

\* ConditionFrom going on past a category that occurs: the last one that occurs wins
ConditionFromLast(condition, condition_lower, k) ==
    IF k > Len(condition_map) THEN Title(condition)
    ELSE IF /\ AnyVariant(condition_map[k].variants, condition_lower)
            /\ \A j \in (k + 1)..Len(condition_map) :
                  ~AnyVariant(condition_map[j].variants, condition_lower)
         THEN Title(condition_map[k].standard_condition)
         ELSE ConditionFrom(condition, condition_lower, k + 1)

\* ConditionFrom answering 'Unknown' when no variant occurs
ConditionFromUnknown(condition, condition_lower, k) ==
    IF k > Len(condition_map) THEN "Unknown"
    ELSE IF AnyVariant(condition_map[k].variants, condition_lower)
         THEN Title(condition_map[k].standard_condition)
         ELSE ConditionFrom(condition, condition_lower, k + 1)

ConditionFrom(condition, condition_lower, k) ==
    IF k > Len(condition_map) THEN Title(condition)
    ELSE IF AnyVariant(condition_map[k].variants, condition_lower)
         THEN Title(condition_map[k].standard_condition)
         ELSE ConditionFrom(condition, condition_lower, k + 1)

\* condition is a Python value; one that is true and has no lower() raises
_standardize_condition(condition) ==
    IF ~Truthy(condition) THEN Return("Unknown")
    ELSE IF condition.tag # "str" THEN Raise
    ELSE Return(ConditionFrom(condition.s, Strip(Lower(condition.s)), 1))

(***************************************************************************)
(* validate_gpu_targets.  config is config.gpu_targets: the three lists of *)
(* strings nvidia_series, amd_series and intel_models.                     *)
(***************************************************************************)
GpuTargets(nvidia_series, amd_series, intel_models) ==
    [nvidia_series |-> nvidia_series, amd_series |-> amd_series,
     intel_models |-> intel_models]

\* for series in targets: if series in model: return True
AnySeriesIn(targets, model) == \E k \in 1..Len(targets) : Contains(model, targets[k])

\* for target_model in targets: if target_model.lower() in model: return True
AnyModelIn(targets, model) == \E k \in 1..Len(targets) : Contains(model, Lower(targets[k]))

\* gpu_info is an Optional[GPUInfo]
validate_gpu_targets(info, config) ==
    IF info = <<>> THEN FALSE
    ELSE CASE Lower(info[1].manufacturer) = "nvidia" ->
                AnySeriesIn(config.nvidia_series, Lower(info[1].model))
           [] Lower(info[1].manufacturer) = "amd" ->
                AnySeriesIn(config.amd_series, Lower(info[1].model))
           [] Lower(info[1].manufacturer) = "intel" ->
                AnyModelIn(config.intel_models, Lower(info[1].model))
           [] OTHER -> FALSE

(***************************************************************************)
(* standardize_listing.                                                    *)
(***************************************************************************)
\* raw_listing.get(key): None when the key is absent
GetOrNone(raw, key) == Get(raw, key, PyNone)

\* Standardized taking the marketplace from 'source' first
StandardizedSourceFirst(raw, title_, description_, price_text, price, info, condition) ==
    [title |-> title_,
     description |-> description_,
     price_text |-> price_text,
     standardized_price |-> price,
     gpu_manufacturer |-> info.manufacturer,
     gpu_series |-> info.series,
     gpu_model |-> info.model,
     vram_gb |-> info.vram,
     card_manufacturer |-> info.card_manufacturer,
     confidence_score |-> info.confidence_score,
     url |-> GetOrNone(raw, "url"),
     marketplace |-> Get(raw, "source", GetOrNone(raw, "marketplace")),
     scraped_at |-> GetOrNone(raw, "scraped_at"),
     listing_type |-> GetOrNone(raw, "listing_type"),
     condition |-> condition,
     location |-> GetOrNone(raw, "location"),
     seller_info |-> GetOrNone(raw, "seller_info"),
     is_sold |-> Get(raw, "is_sold", PyBool("False")),
     is_featured |-> Get(raw, "is_featured", PyBool("False")),
     shipping |-> GetOrNone(raw, "shipping"),
     posted_date |-> GetOrNone(raw, "posted_date"),
     image_url |-> GetOrNone(raw, "image_url")]

\* Standardized with the model as the title of the record
StandardizedModelTitle(raw, title_, description_, price_text, price, info, condition) ==
    [title |-> info.model,
     description |-> description_,
     price_text |-> price_text,
     standardized_price |-> price,
     gpu_manufacturer |-> info.manufacturer,
     gpu_series |-> info.series,
     gpu_model |-> info.model,
     vram_gb |-> info.vram,
     card_manufacturer |-> info.card_manufacturer,
     confidence_score |-> info.confidence_score,
     url |-> GetOrNone(raw, "url"),
     marketplace |-> Get(raw, "marketplace", GetOrNone(raw, "source")),
     scraped_at |-> GetOrNone(raw, "scraped_at"),
     listing_type |-> GetOrNone(raw, "listing_type"),
     condition |-> condition,
     location |-> GetOrNone(raw, "location"),
     seller_info |-> GetOrNone(raw, "seller_info"),
     is_sold |-> Get(raw, "is_sold", PyBool("False")),
     is_featured |-> Get(raw, "is_featured", PyBool("False")),
     shipping |-> GetOrNone(raw, "shipping"),
     posted_date |-> GetOrNone(raw, "posted_date"),
     image_url |-> GetOrNone(raw, "image_url")]

Standardized(raw, title_, description_, price_text, price, info, condition) ==
    [title |-> title_,
     description |-> description_,
     price_text |-> price_text,
     standardized_price |-> price,
     gpu_manufacturer |-> info.manufacturer,
     gpu_series |-> info.series,
     gpu_model |-> info.model,
     vram_gb |-> info.vram,
     card_manufacturer |-> info.card_manufacturer,
     confidence_score |-> info.confidence_score,
     url |-> GetOrNone(raw, "url"),
     marketplace |-> Get(raw, "marketplace", GetOrNone(raw, "source")),
     scraped_at |-> GetOrNone(raw, "scraped_at"),
     listing_type |-> GetOrNone(raw, "listing_type"),
     condition |-> condition,
     location |-> GetOrNone(raw, "location"),
     seller_info |-> GetOrNone(raw, "seller_info"),
     is_sold |-> Get(raw, "is_sold", PyBool("False")),
     is_featured |-> Get(raw, "is_featured", PyBool("False")),
     shipping |-> GetOrNone(raw, "shipping"),
     posted_date |-> GetOrNone(raw, "posted_date"),
     image_url |-> GetOrNone(raw, "image_url")]

\* the stripped text of a field: .get(key, '').strip() raises on a value with no strip()
HasText(raw, key) == Get(raw, key, Str("")).tag = "str"
Text(raw, key) == Strip(Get(raw, key, Str("")).s)

\* whether the call reaches extract_gpu_info
ReachesExtract(raw) ==
    /\ IsMapping(raw)
    /\ HasText(raw, "title") /\ HasText(raw, "description") /\ HasText(raw, "price")
    /\ Text(raw, "title") # ""

\* ListingGpuInfo with the description left out of the text
ListingGpuInfoTitleOnly(raw) ==
    IF ReachesExtract(raw) THEN extract_gpu_info(Text(raw, "title"), "") ELSE <<>>

\* the identity standardize_listing works with: its local gpu_info, None
\* when the call leaves before extract_gpu_info is reached
ListingGpuInfo(raw) ==
    IF ReachesExtract(raw)
    THEN extract_gpu_info(Text(raw, "title"), Text(raw, "description"))
    ELSE <<>>

\* the try statement from "if not gpu_info", gpu_info and condition being
\* what extract_gpu_info and _standardize_condition give
FromGpuInfo(raw, info, condition) ==
    IF info = <<>> THEN Return(<<>>)
    ELSE IF info[1].confidence_score < MIN_CONFIDENCE THEN Return(<<>>)
    ELSE IF condition.raised THEN Raise
    ELSE Return(<<Standardized(raw, Text(raw, "title"), Text(raw, "description"),
                               Text(raw, "price"), extract_price(Text(raw, "price")),
                               info[1], condition.value)>>)

\* the body of the try statement
standardize_listing_try(raw) ==
    IF ~IsMapping(raw) THEN Raise                                   \* no get()
    ELSE IF ~(HasText(raw, "title") /\ HasText(raw, "description") /\ HasText(raw, "price"))
         THEN Raise                                                 \* no strip()
    ELSE IF Text(raw, "title") = "" THEN Return(<<>>)
    ELSE FromGpuInfo(raw, ListingGpuInfo(raw),
                     _standardize_condition(Get(raw, "condition", Str(""))))

\* Caught without the except clause
Propagated(outcome) == outcome

\* except Exception: log the error, return None
Caught(outcome) == IF outcome.raised THEN Return(<<>>) ELSE outcome

standardize_listing(raw) == Caught(standardize_listing_try(raw))

(***************************************************************************)
(* standardize_data: the batch loop of the orchestrator.                   *)
(***************************************************************************)
\* AfterListing with the loop left at the first listing that yields no record
AfterListingLeaving(listings, outcome) ==
    IF outcome.raised \/ outcome.value = <<>>
    THEN [listings |-> listings, left |-> TRUE]
    ELSE [listings |-> Append(listings, outcome.value[1]), left |-> FALSE]

\* the body of the loop, outcome being what standardize_listing gave: the
\* list after it, and whether the loop is left early
AfterListing(listings, outcome) ==
    IF outcome.raised THEN [listings |-> listings, left |-> FALSE]        \* except: continue
    ELSE IF outcome.value # <<>>
         THEN [listings |-> Append(listings, outcome.value[1]), left |-> FALSE]
         ELSE [listings |-> listings, left |-> FALSE]

standardize_data_iteration(listings, listing) ==
    AfterListing(listings, standardize_listing(listing))

(***************************************************************************)
(* Inputs.                                                                 *)
(***************************************************************************)
\* the most fragments a title is put together from
MaxFrags == 2

Fragments ==
    {"RTX 5090", "rtx 4070 ti", "RTX 4070 Ti", "rtx4170", "GeForce RTX 2080",
     "RX 7800 XT", "rx 7600", "Radeon RX 6700 xt", "Arc B580", "arc a770", "MSI 12GB"}

RECURSIVE Concats(_)
Concats(n) ==
    IF n = 0 THEN {""}
    ELSE LET shorter == Concats(n - 1)
         IN shorter \cup {p \o f : p \in shorter, f \in Fragments}

Titles == Concats(MaxFrags)

RECURSIVE ConcatsOf(_, _)
\* the texts made of at most n of the fragments
ConcatsOf(fragments, n) ==
    IF n = 0 THEN {""}
    ELSE ConcatsOf(fragments, n - 1)
         \cup {p \o f : p \in ConcatsOf(fragments, n - 1), f \in fragments}

Descriptions == {"", "with RTX 5090", "tidy rx 7600"}

\* a key the raw listing does not have
Absent == [tag |-> "absent", s |-> ""]

\* the raw listing with the given values, the absent keys left out
RawListing(t, d, p, c, u, m, src) ==
    LET all == [title |-> t, description |-> d, price |-> p, condition |-> c,
                url |-> u, marketplace |-> m, source |-> src]
        present == {key \in DOMAIN all : all[key] # Absent}
    IN [kind |-> "dict", fields |-> [key \in present |-> all[key]]]

\* an input that is no mapping: None, a string, a list
NotMapping(kind) == [kind |-> kind, fields |-> <<>>]

TitleOptions ==
    {Absent, PyNone, PyInt("5"), Str(""), Str("  "), Str("Office Chair for sale"),
     Str("MSI RTX 4090 Gaming X Trio 24GB"), Str(" RX 7800 XT 16GB "), Str("rtx"),
     Str("Gaming PC")}

DescriptionOptions ==
    {Absent, PyNone, Str(""), Str("4090 ti boxed"), Str(" Intel Arc B580 inside ")}

PriceOptions == {Absent, PyInt("450"), Str("£1,450.00"), Str("450.00 ono"), Str("£50000")}

ConditionOptions ==
    {Absent, PyNone, PyInt("5"), PyInt("0"), Str("Used - Excellent"), Str("Brand New"),
     Str("slightly scuffed")}

MetaOptions ==
    {<<Absent, Absent, Absent>>,
     <<Str("https://example.com/test"), Str("Test Market"), Str("ebay")>>,
     <<Str("https://example.com/test"), Absent, Str("gumtree")>>}

\* the keys standardize_listing hands on, each with a value a scraper gives it
\* (a marketplace of None is a key that is present)
MetaValue ==
    [scraped_at |-> Str("2024-05-01T10:00:00"), listing_type |-> Str("auction"),
     location |-> Str("London"), seller_info |-> Str("seller 42"),
     is_sold |-> PyBool("True"), is_featured |-> PyNone, shipping |-> Str("£5.00"),
     posted_date |-> Str("yesterday"), image_url |-> Str("https://example.com/i.jpg"),
     marketplace |-> PyNone]

\* the raw listing with the keys added, each with its MetaValue
WithKeys(raw, keys) ==
    [kind |-> "dict",
     fields |-> [key \in DOMAIN raw.fields \cup keys |->
                    IF key \in keys THEN MetaValue[key] ELSE raw.fields[key]]]

\* an accepted listing, its texts not trimmed, with any of the keys of MetaValue
MetaListings ==
    {WithKeys(RawListing(Str(" MSI RTX 4090 Gaming X Trio 24GB"), Str("boxed "),
                         Str(" £1,450.00 "), Absent, Str("https://example.com/test"),
                         Absent, Str("ebay")),
              keys) : keys \in SUBSET DOMAIN MetaValue}

Listings ==
    {RawListing(t, d, p, c, meta[1], meta[2], meta[3]) :
        t \in TitleOptions, d \in DescriptionOptions, p \in PriceOptions,
        c \in ConditionOptions, meta \in MetaOptions}
    \cup {NotMapping("none"), NotMapping("str"), NotMapping("list")}
    \cup MetaListings

\* the most listings in a batch
MaxBatch == 3

BatchListings ==
    {RawListing(Str("MSI RTX 4090 Gaming X Trio 24GB"), Absent, Str("£1,450.00"),
                Str("Used - Excellent"), Str("https://example.com/1"), Absent, Str("ebay")),
     RawListing(Str("AMD Radeon RX 7800 XT 16GB"), Str("boxed"), Str("450.00 ono"),
                Absent, Str("https://example.com/2"), Absent, Str("gumtree")),
     RawListing(Str("Office Chair for sale"), Absent, Str("£20"), Str("Good"),
                Str("https://example.com/3"), Absent, Str("gumtree")),
     RawListing(PyNone, Absent, Str("£300"), Absent, Str("https://example.com/4"),
                Absent, Str("ebay")),
     RawListing(Str("Intel Arc B580 12GB"), Absent, Str("£250"), PyInt("5"),
                Str("https://example.com/5"), Absent, Str("ebay")),
     NotMapping("none")}

RECURSIVE SeqsUpTo(_, _)
\* the sequences of at most n elements of S
SeqsUpTo(S, n) ==
    IF n = 0 THEN {<<>>}
    ELSE LET shorter == SeqsUpTo(S, n - 1)
         IN shorter \cup {Append(q, x) : q \in shorter, x \in S}

Batches == SeqsUpTo(BatchListings, MaxBatch)

\* the values of the variables a specification does not use
NoListing == NotMapping("none")
NoOutcome == Return(<<>>)
NoArgument == ""
NoSession == "none"

\* the fields __init__ gives the standardizer
Catalog ==
    [nvidia_patterns |-> nvidia_patterns, amd_patterns |-> amd_patterns,
     intel_patterns |-> intel_patterns, vram_patterns |-> vram_patterns,
     manufacturer_patterns |-> manufacturer_patterns, price_patterns |-> price_patterns]

\* the values of the variables the standardizer's own specifications do not use
NoOthers ==
    /\ self = Catalog
    /\ calls = <<>>
    /\ events = <<>>
    /\ session = NoSession

(***************************************************************************)
(* extract_gpu_info, called once on a title and a description.             *)
(***************************************************************************)
InitExtract ==
    /\ pc = "extract_gpu_info"
    /\ title \in Titles
    /\ description \in Descriptions
    /\ gpu_info = <<>>
    /\ raw_listing = NoListing
    /\ result = NoOutcome
    /\ raw_listings = <<>>
    /\ idx = 0
    /\ standardized_listings = <<>>
    /\ argument = NoArgument
    /\ NoOthers

ExtractGpuInfo ==
    /\ pc = "extract_gpu_info"
    /\ gpu_info' = extract_gpu_info(title, description)
    /\ pc' = "extract_gpu_info returned"
    /\ UNCHANGED <<title, description, raw_listing, result, raw_listings, idx,
                   standardized_listings, argument,
                   others>>

NextExtract == ExtractGpuInfo

SpecExtract == InitExtract /\ [][NextExtract]_vars

(***************************************************************************)
(* standardize_listing, called once on a raw listing.                      *)
(***************************************************************************)
InitListing ==
    /\ pc = "standardize_listing"
    /\ raw_listing \in Listings
    /\ result = NoOutcome
    /\ gpu_info = <<>>
    /\ title = ""
    /\ description = ""
    /\ raw_listings = <<>>
    /\ idx = 0
    /\ standardized_listings = <<>>
    /\ argument = NoArgument
    /\ NoOthers

StandardizeListing ==
    /\ pc = "standardize_listing"
    /\ result' = standardize_listing(raw_listing)
    /\ gpu_info' = ListingGpuInfo(raw_listing)
    /\ pc' = "standardize_listing returned"
    /\ UNCHANGED <<title, description, raw_listing, raw_listings, idx,
                   standardized_listings, argument,
                   others>>

NextListing == StandardizeListing

SpecListing == InitListing /\ [][NextListing]_vars

(***************************************************************************)
(* Either entry point of the standardizer, called once.                    *)
(***************************************************************************)
InitStandardizer == InitExtract \/ InitListing

NextStandardizer == ExtractGpuInfo \/ StandardizeListing

SpecStandardizer == InitStandardizer /\ [][NextStandardizer]_vars

(***************************************************************************)
(* standardize_data over a batch of raw listings, one listing a step.      *)
(***************************************************************************)
Init ==
    /\ pc = "standardize_data"
    /\ raw_listings \in Batches
    /\ idx = 0
    /\ standardized_listings = <<>>
    /\ raw_listing = NoListing
    /\ result = NoOutcome
    /\ gpu_info = <<>>
    /\ title = ""
    /\ description = ""
    /\ argument = NoArgument
    /\ NoOthers

\* one turn of "for listing in raw_listings"
StandardizeNext ==
    /\ pc = "standardize_data"
    /\ idx < Len(raw_listings)
    /\ \E iteration \in {standardize_data_iteration(standardized_listings,
                                                       raw_listings[idx + 1])} :
          /\ standardized_listings' = iteration.listings
          /\ idx' = IF iteration.left THEN Len(raw_listings) ELSE idx + 1
    /\ UNCHANGED <<pc, raw_listings, raw_listing, result, gpu_info, title, description,
                   argument,
                   others>>

\* the loop is over: return standardized_listings
StandardizeReturn ==
    /\ pc = "standardize_data"
    /\ idx = Len(raw_listings)
    /\ pc' = "standardize_data returned"
    /\ UNCHANGED <<raw_listings, idx, standardized_listings, raw_listing, result, gpu_info,
                   title, description, argument,
                   others>>

Next == StandardizeNext \/ StandardizeReturn

Spec == Init /\ [][Next]_vars

(***************************************************************************)
(* extract_price, called once on a price text, and the specification of    *)
(* the two ways a price is extracted: by that call or within               *)
(* standardize_listing.                                                    *)
(***************************************************************************)
PriceFragments ==
    {"£", "£ ", "5", "450", "450.00", "1,450.00", "50000", " ono", "negotiable",
     " or best offer", "£5 ", "£5 ono ", "12£", "OBO ", "10,000.01"}

PriceTexts == ConcatsOf(PriceFragments, MaxFrags)

InitPrice ==
    /\ pc = "extract_price"
    /\ argument \in PriceTexts
    /\ result = NoOutcome
    /\ gpu_info = <<>>
    /\ raw_listing = NoListing
    /\ title = ""
    /\ description = ""
    /\ raw_listings = <<>>
    /\ idx = 0
    /\ standardized_listings = <<>>
    /\ NoOthers

ExtractPrice ==
    /\ pc = "extract_price"
    /\ result' = Return(extract_price(argument))
    /\ pc' = "extract_price returned"
    /\ UNCHANGED <<argument, gpu_info, raw_listing, title, description, raw_listings, idx,
                   standardized_listings,
                   others>>

NextPrice == ExtractPrice

SpecPrice == InitPrice /\ [][NextPrice]_vars

InitPricing == InitPrice \/ InitListing

NextPricing == ExtractPrice \/ StandardizeListing

SpecPricing == InitPricing /\ [][NextPricing]_vars

(***************************************************************************)
(* _extract_vram, called once on a text.                                   *)
(***************************************************************************)
VramFragments ==
    {"12GB GDDR6X", "33GB", "12gb", "8 GB VRAM", "vram: 16 gb", " ", "24GB", "25 gb",
     "0GB", "1gb", "4", "GB", "vram", " gddr6 "}

VramTexts == ConcatsOf(VramFragments, MaxFrags)

\* the variables only the entry points of the listing pipeline use
NoPipeline ==
    /\ result = NoOutcome
    /\ gpu_info = <<>>
    /\ raw_listing = NoListing
    /\ title = ""
    /\ description = ""
    /\ raw_listings = <<>>
    /\ idx = 0
    /\ standardized_listings = <<>>
    /\ NoOthers

InitVram ==
    /\ pc = "_extract_vram"
    /\ argument \in VramTexts
    /\ NoPipeline

ExtractVram ==
    /\ pc = "_extract_vram"
    /\ result' = Return(_extract_vram(argument))
    /\ pc' = "_extract_vram returned"
    /\ UNCHANGED <<argument, gpu_info, raw_listing, title, description, raw_listings, idx,
                   standardized_listings,
                   others>>

NextVram == ExtractVram

SpecVram == InitVram /\ [][NextVram]_vars

(***************************************************************************)
(* _standardize_condition, called once on a condition, and the             *)
(* specification of the two ways a condition is standardized: by that call *)
(* or within standardize_listing.                                          *)
(***************************************************************************)
ConditionFragments ==
    {"Brand New", "slightly scuffed", "Used - Excellent", "good", " as new", "Like New",
     "unknown", "UNKNOWN", "faulty ", "fair", " ", "mint", "Very Good", "for parts"}

ConditionTexts == ConcatsOf(ConditionFragments, MaxFrags)

\* the condition strings, and the values that are no strings
Conditions == {Str(c) : c \in ConditionTexts} \cup {PyNone, PyInt("0"), PyInt("5")}

InitCondition ==
    /\ pc = "_standardize_condition"
    /\ argument \in Conditions
    /\ NoPipeline

StandardizeCondition ==
    /\ pc = "_standardize_condition"
    /\ result' = _standardize_condition(argument)
    /\ pc' = "_standardize_condition returned"
    /\ UNCHANGED <<argument, gpu_info, raw_listing, title, description, raw_listings, idx,
                   standardized_listings,
                   others>>

NextCondition == StandardizeCondition

SpecCondition == InitCondition /\ [][NextCondition]_vars

InitConditions == InitCondition \/ InitListing

NextConditions == StandardizeCondition \/ StandardizeListing

SpecConditions == InitConditions /\ [][NextConditions]_vars

(***************************************************************************)
(* _extract_card_manufacturer, called once on a text.                      *)
(***************************************************************************)
CardFragments ==
    {"MSI", "msi gaming", "xmsi  ventus", "ASUS ", "asus tuf", "Gigabyte", " EVGA",
     "evga sc", "Manli", "inno3d", "PNY", " zotac", "sapphire nitro", " ", "x",
     "powercolor red", "XFX_", "palit ", "Gainward"}

CardTexts == ConcatsOf(CardFragments, MaxFrags)

InitCard ==
    /\ pc = "_extract_card_manufacturer"
    /\ argument \in CardTexts
    /\ NoPipeline

ExtractCardManufacturer ==
    /\ pc = "_extract_card_manufacturer"
    /\ result' = Return(_extract_card_manufacturer(argument))
    /\ pc' = "_extract_card_manufacturer returned"
    /\ UNCHANGED <<argument, gpu_info, raw_listing, title, description, raw_listings, idx,
                   standardized_listings,
                   others>>

NextCard == ExtractCardManufacturer

SpecCard == InitCard /\ [][NextCard]_vars

(***************************************************************************)
(* validate_gpu_targets, called once on an identity and a configuration.   *)
(***************************************************************************)
Identities ==
    {<<GPUInfo("NVIDIA", "RTX 40", "4070 Ti", MATCH_CONFIDENCE)>>,
     <<GPUInfo("NVIDIA", "RTX 50", "5090", MATCH_CONFIDENCE)>>,
     <<GPUInfo("AMD", "RX 7000", "7800 XT", MATCH_CONFIDENCE)>>,
     <<GPUInfo("AMD", "RX 6000", "6700", MATCH_CONFIDENCE)>>,
     <<GPUInfo("Intel", "Arc", "B580", MATCH_CONFIDENCE)>>,
     <<GPUInfo("Intel", "Arc", "A770", MATCH_CONFIDENCE)>>}

NvidiaTargets == {<<>>, <<"4070">>, <<"RTX 40", "4070 Ti">>, <<"ti">>, <<"3060", "50">>}
AmdTargets == {<<>>, <<"7800 XT">>, <<"7800 xt", "6700">>, <<"RX 7000">>, <<"xt", "gre">>}
IntelTargets == {<<>>, <<"B580">>, <<"a770", "b580">>, <<"Arc">>}

Configs ==
    {GpuTargets(n, a, i) : n \in NvidiaTargets, a \in AmdTargets, i \in IntelTargets}

InitTargets ==
    /\ pc = "validate_gpu_targets"
    /\ gpu_info \in Identities
    /\ argument \in Configs
    /\ result = NoOutcome
    /\ raw_listing = NoListing
    /\ title = ""
    /\ description = ""
    /\ raw_listings = <<>>
    /\ idx = 0
    /\ standardized_listings = <<>>
    /\ NoOthers

ValidateGpuTargets ==
    /\ pc = "validate_gpu_targets"
    /\ result' = Return(validate_gpu_targets(gpu_info, argument))
    /\ pc' = "validate_gpu_targets returned"
    /\ UNCHANGED <<argument, gpu_info, raw_listing, title, description, raw_listings, idx,
                   standardized_listings,
                   others>>

NextTargets == ValidateGpuTargets

SpecTargets == InitTargets /\ [][NextTargets]_vars

(***************************************************************************)
(* standardize_listing called concurrently on one standardizer: each call  *)
(* has a frame of its own and runs a statement at a time; the raw listings *)
(* (raw_listings, a call holding the position of the one it is given) and  *)
(* the standardizer (self) are shared by the calls.                        *)
(***************************************************************************)
\* the most calls that run at once
MaxThreads == 2

Threads == 1..MaxThreads

\* the raw listings the calls are given
SharedListings ==
    <<RawListing(Str(" MSI RTX 4090 Gaming X Trio 24GB "), Str("boxed"), Str("£1,450.00"),
                 Str("Used - Excellent"), Str("https://example.com/1"), Absent, Str("ebay")),
      RawListing(Str("Office Chair for sale"), Absent, Str("£20"), Str("Good"),
                 Str("https://example.com/3"), Absent, Str("gumtree")),
      RawListing(Str("Intel Arc B580 12GB"), Absent, Str("£250"), PyInt("5"),
                 Str("https://example.com/5"), Absent, Str("ebay"))>>

\* the frame of a call at its entry, given the raw listing at ref
Frame(ref) ==
    [pc |-> "strip", raw_listing |-> ref, title |-> "", description |-> "",
     price_text |-> "", gpu_info |-> <<>>, price |-> <<>>, result |-> NoOutcome]

\* the call is over: what it returns, an exception going through the except clause
Returned(frame, outcome) == [frame EXCEPT !.pc = "returned", !.result = Caught(outcome)]

\* the three get(...).strip() and "if not title"
AfterStrip(frame, raw) ==
    IF ~IsMapping(raw) THEN Returned(frame, Raise)
    ELSE IF ~(HasText(raw, "title") /\ HasText(raw, "description") /\ HasText(raw, "price"))
         THEN Returned(frame, Raise)
    ELSE IF Text(raw, "title") = "" THEN Returned(frame, Return(<<>>))
    ELSE [frame EXCEPT !.pc = "extract_gpu_info",
                       !.title = Text(raw, "title"),
                       !.description = Text(raw, "description"),
                       !.price_text = Text(raw, "price")]

\* HeapAfterGet with the key popped from the raw listing
HeapAfterPop(heap, ref) ==
    [heap EXCEPT ![ref] =
        IF IsMapping(heap[ref])
        THEN [kind |-> "dict",
              fields |-> [key \in DOMAIN heap[ref].fields \ {"url"} |-> heap[ref].fields[key]]]
        ELSE heap[ref]]

\* the raw listings after raw_listing.get(...): get leaves the dict as it is
HeapAfterGet(heap, ref) == heap

\* extract_gpu_info reads the patterns of self: the catalog of __init__ gives
\* what the operator extract_gpu_info gives, another catalog anything
ExtractUnder(catalog, title_, description_) ==
    IF catalog = Catalog THEN {extract_gpu_info(title_, description_)}
    ELSE {<<>>, extract_gpu_info(title_, description_)}

\* "gpu_info = ..." and "if not gpu_info or gpu_info.confidence_score < 0.3"
AfterExtract(frame, info) ==
    IF info = <<>> THEN Returned(frame, Return(<<>>))
    ELSE IF info[1].confidence_score < MIN_CONFIDENCE THEN Returned(frame, Return(<<>>))
    ELSE [frame EXCEPT !.pc = "extract_price", !.gpu_info = info]

\* "price = self.extract_price(price_text)"
AfterPrice(frame) ==
    [frame EXCEPT !.pc = "build", !.price = extract_price(frame.price_text)]

\* "standardized = {...}" and "return standardized"
AfterBuild(frame, raw, condition) ==
    IF ~IsMapping(raw) THEN Returned(frame, Raise)
    ELSE IF condition.raised THEN Returned(frame, Raise)
    ELSE Returned(frame, Return(<<Standardized(raw, frame.title, frame.description,
                                               frame.price_text, frame.price,
                                               frame.gpu_info[1], condition.value)>>))

InitConcurrent ==
    /\ pc = "concurrent calls"
    /\ raw_listings = SharedListings
    /\ self = Catalog
    /\ calls \in [Threads -> {Frame(ref) : ref \in 1..Len(SharedListings)}]
    /\ events = <<>>
    /\ session = NoSession
    /\ argument = NoArgument
    /\ raw_listing = NoListing
    /\ result = NoOutcome
    /\ gpu_info = <<>>
    /\ title = ""
    /\ description = ""
    /\ idx = 0
    /\ standardized_listings = <<>>

\* what no statement of standardize_listing assigns to
ConcurrentUnchanged ==
    UNCHANGED <<pc, self, events, session, argument, raw_listing, result, gpu_info, title,
                description, idx, standardized_listings>>

CallStrip ==
    \E t \in Threads :
        /\ calls[t].pc = "strip"
        /\ calls' = [calls EXCEPT ![t] = AfterStrip(@, raw_listings[@.raw_listing])]
        /\ raw_listings' = HeapAfterGet(raw_listings, calls[t].raw_listing)
        /\ ConcurrentUnchanged

CallExtract ==
    \E t \in Threads :
        /\ calls[t].pc = "extract_gpu_info"
        /\ \E info \in ExtractUnder(self, calls[t].title, calls[t].description) :
              calls' = [calls EXCEPT ![t] = AfterExtract(@, info)]
        /\ UNCHANGED raw_listings
        /\ ConcurrentUnchanged

CallPrice ==
    \E t \in Threads :
        /\ calls[t].pc = "extract_price"
        /\ calls' = [calls EXCEPT ![t] = AfterPrice(@)]
        /\ UNCHANGED raw_listings
        /\ ConcurrentUnchanged

CallBuild ==
    \E t \in Threads :
        /\ calls[t].pc = "build"
        /\ \E condition \in {_standardize_condition(
                                 Get(raw_listings[calls[t].raw_listing], "condition",
                                     Str("")))} :
              calls' = [calls EXCEPT ![t] =
                           AfterBuild(@, raw_listings[@.raw_listing], condition)]
        /\ raw_listings' = HeapAfterGet(raw_listings, calls[t].raw_listing)
        /\ ConcurrentUnchanged

NextConcurrent == CallStrip \/ CallExtract \/ CallPrice \/ CallBuild

SpecConcurrent == InitConcurrent /\ [][NextConcurrent]_vars

(***************************************************************************)
(* standardize_listing called on a raw listing and then, when it returned  *)
(* a record, on that record.                                               *)
(***************************************************************************)
\* a number as a value of a dict
PyNumber(tag, n) == [tag |-> tag, s |-> ToString(n)]

\* an Optional as a value of a dict
PyOptional(tag, opt) ==
    IF opt = <<>> THEN PyNone
    ELSE IF tag = "str" THEN Str(opt[1]) ELSE PyNumber(tag, opt[1])

\* the record standardize_listing returned, as the dict it is when it is
\* passed to standardize_listing
AsRaw(record) ==
    [kind |-> "dict",
     fields |->
        [key \in DOMAIN record |->
            CASE key \in {"title", "description", "price_text", "gpu_manufacturer",
                          "gpu_series", "gpu_model", "condition"} -> Str(record[key])
              [] key = "standardized_price" -> PyOptional("float", record[key])
              [] key = "vram_gb" -> PyOptional("int", record[key])
              [] key = "card_manufacturer" -> PyOptional("str", record[key])
              [] key = "confidence_score" -> PyNumber("float", record[key])
              [] OTHER -> record[key]]]

\* the record of the first call is kept in standardized_listings
FeedBack ==
    /\ pc = "standardize_listing returned"
    /\ ~result.raised /\ result.value # <<>>
    /\ standardized_listings' = <<result.value[1]>>
    /\ raw_listing' = AsRaw(result.value[1])
    /\ result' = standardize_listing(AsRaw(result.value[1]))
    /\ gpu_info' = ListingGpuInfo(AsRaw(result.value[1]))
    /\ pc' = "standardize_listing returned again"
    /\ UNCHANGED <<title, description, raw_listings, idx, argument, others>>

NextRestandardize == StandardizeListing \/ FeedBack

SpecRestandardize == InitListing /\ [][NextRestandardize]_vars

(***************************************************************************)
(* get_standardization_stats, called once on a list of records.  A dict is *)
(* a function of its keys, the empty dict the function <<>>; a rate is the *)
(* integer number of its tenths (66.7 is 667).                             *)
(***************************************************************************)
\* bool(listing.get(key)) for a key of the record that holds a string, an
\* Optional string or an Optional number
FieldTruthy(listing, key) ==
    IF key \notin DOMAIN listing THEN FALSE
    ELSE IF key = "gpu_model" THEN listing[key] # ""
    ELSE IF listing[key] = <<>> THEN FALSE
    ELSE IF key = "card_manufacturer" THEN listing[key][1] # ""
    ELSE listing[key][1] # 0

RECURSIVE CountTruthy(_, _)
\* sum(1 for listing in listings if listing.get(key))
CountTruthy(listings, key) ==
    IF listings = <<>> THEN 0
    ELSE (IF FieldTruthy(Head(listings), key) THEN 1 ELSE 0)
         + CountTruthy(Tail(listings), key)

RECURSIVE SumConfidence(_)
\* sum(listing.get('confidence_score', 0) for listing in listings)
SumConfidence(listings) ==
    IF listings = <<>> THEN 0
    ELSE (IF "confidence_score" \in DOMAIN Head(listings)
          THEN Head(listings).confidence_score ELSE 0)
         + SumConfidence(Tail(listings))

\* RoundHalfEven leaving the digits after the last place out
RoundDown(num, den) == num \div den

\* round(): num / den to the nearest integer, a tie to the even one
RoundHalfEven(num, den) ==
    LET q == num \div den
        r == num % den
    IN IF 2 * r < den THEN q
       ELSE IF 2 * r > den THEN q + 1
       ELSE IF q % 2 = 0 THEN q ELSE q + 1

\* total_listings = len(listings)
TotalListings(listings) == Len(listings)

\* round(count / total_listings * 100, 1), in tenths
Rate(count, total_listings) == RoundHalfEven(count * 1000, total_listings)

\* the statements after "if not listings": a division by zero raises
StatsOf(listings, total_listings) ==
    IF total_listings = 0 THEN Raise
    ELSE Return(
        [total_listings |-> total_listings,
         price_extraction_rate |->
            Rate(CountTruthy(listings, "standardized_price"), total_listings),
         gpu_identification_rate |-> Rate(CountTruthy(listings, "gpu_model"), total_listings),
         vram_extraction_rate |-> Rate(CountTruthy(listings, "vram_gb"), total_listings),
         manufacturer_identification_rate |->
            Rate(CountTruthy(listings, "card_manufacturer"), total_listings),
         avg_confidence_score |-> RoundHalfEven(SumConfidence(listings), total_listings)])

\* get_standardization_stats without "if not listings: return {}"
get_standardization_stats_unguarded(listings) ==
    StatsOf(listings, TotalListings(listings))

get_standardization_stats(listings) ==
    IF listings = <<>> THEN Return(<<>>)
    ELSE StatsOf(listings, TotalListings(listings))

\* the most records in a collection
MaxListings == 3

\* raw listings that standardize_listing accepts, with and without a price,
\* a VRAM size and a card manufacturer
StatsRaw ==
    {RawListing(Str("MSI RTX 4090 Gaming X Trio 24GB"), Absent, Str("£1,450.00"),
                Str("Used - Excellent"), Str("https://example.com/1"), Absent, Str("ebay")),
     RawListing(Str("AMD Radeon RX 7800 XT 16GB"), Str("boxed"), Str("450.00 ono"),
                Absent, Str("https://example.com/2"), Absent, Str("gumtree")),
     RawListing(Str("rtx 3060"), Absent, Str("offers"), Absent,
                Str("https://example.com/6"), Absent, Str("ebay")),
     RawListing(Str("Asus Arc B580"), Absent, Str("£5"), Str("New"),
                Str("https://example.com/7"), Absent, Str("gumtree"))}

\* the records standardize_listing gives for them
StatsRecords == {standardize_listing(raw).value[1] : raw \in StatsRaw}

InitStats ==
    /\ pc = "get_standardization_stats"
    /\ argument \in SeqsUpTo(StatsRecords, MaxListings)
    /\ NoPipeline

GetStandardizationStats ==
    /\ pc = "get_standardization_stats"
    /\ result' = get_standardization_stats(argument)
    /\ pc' = "get_standardization_stats returned"
    /\ UNCHANGED <<argument, gpu_info, raw_listing, title, description, raw_listings, idx,
                   standardized_listings, others>>

NextStats == GetStandardizationStats

SpecStats == InitStats /\ [][NextStats]_vars

(***************************************************************************)
(* remove_duplicates, called once on a list of records.                    *)
(***************************************************************************)
\* listing.get('url', '')
UrlOf(listing) == IF "url" \in DOMAIN listing THEN listing.url ELSE Str("")

RECURSIVE UniqueFrom(_, _, _)
\* the loop "for listing in listings" from the given seen_urls and unique_listings
UniqueFrom(listings, seen_urls, unique_listings) ==
    IF listings = <<>> THEN unique_listings
    ELSE IF Truthy(UrlOf(Head(listings))) /\ UrlOf(Head(listings)) \notin seen_urls
         THEN UniqueFrom(Tail(listings), seen_urls \cup {UrlOf(Head(listings))},
                         Append(unique_listings, Head(listings)))
    ELSE UniqueFrom(Tail(listings), seen_urls, unique_listings)

remove_duplicates(listings) == UniqueFrom(listings, {}, <<>>)

\* raw listings that standardize_listing accepts: two of one URL, and one
\* each with another URL, with a URL of None, with an empty URL and with none
DedupRaw ==
    {RawListing(Str("MSI RTX 4090 Gaming X Trio 24GB"), Absent, Str("£1,450.00"),
                Absent, Str("https://example.com/1"), Absent, Str("ebay")),
     RawListing(Str("MSI RTX 4090 24GB boxed"), Absent, Str("£1,400.00"),
                Absent, Str("https://example.com/1"), Absent, Str("gumtree")),
     RawListing(Str("AMD Radeon RX 7800 XT 16GB"), Absent, Str("450.00 ono"),
                Absent, Str("https://example.com/2"), Absent, Str("gumtree")),
     RawListing(Str("rtx 3060"), Absent, Str("£200"), Absent, PyNone, Absent, Str("ebay")),
     RawListing(Str("Asus Arc B580"), Absent, Str("£250"), Absent, Str(""), Absent,
                Str("gumtree")),
     RawListing(Str("Arc A770 16GB"), Absent, Str("£180"), Absent, Absent, Absent,
                Str("gumtree"))}

DedupRecords == {standardize_listing(raw).value[1] : raw \in DedupRaw}

InitDedup ==
    /\ pc = "remove_duplicates"
    /\ argument \in SeqsUpTo(DedupRecords, MaxListings)
    /\ NoPipeline

RemoveDuplicates ==
    /\ pc = "remove_duplicates"
    /\ result' = Return(remove_duplicates(argument))
    /\ pc' = "remove_duplicates returned"
    /\ UNCHANGED <<argument, gpu_info, raw_listing, title, description, raw_listings, idx,
                   standardized_listings, others>>

NextDedup == RemoveDuplicates

SpecDedup == InitDedup /\ [][NextDedup]_vars

(***************************************************************************)
(* run_scraper: the orchestrator's pipeline, a call of a collaborator a    *)
(* step.  The compliance checker, the scrapers and the exporter are the    *)
(* environment: each call of one returns or raises.  events is the list of *)
(* the calls made, each with its outcome; argument is the set of scrapers  *)
(* the configuration enables.                                              *)
(***************************************************************************)
\* the keys of "sites" in check_compliance and of self.scrapers, in their order
Sites == <<"ebay", "facebook", "gumtree">>
Scrapers == <<"ebay", "facebook", "gumtree">>

Event(stage, name, outcome) == [stage |-> stage, name |-> name, outcome |-> outcome]

\* datetime.now().isoformat()
Now == Str("2024-05-01T10:00:00")

\* listing[key] = value
SetItem(listing, key, value) ==
    [kind |-> "dict",
     fields |-> [k \in DOMAIN listing.fields \cup {key} |->
                    IF k = key THEN value ELSE listing.fields[k]]]

\* for listing in listings: listing['source'] = ...; listing['scraped_at'] = ...
Tagged(listings, scraper_name) ==
    [i \in 1..Len(listings) |->
        SetItem(SetItem(listings[i], "source", Str(scraper_name)), "scraped_at", Now)]

\* AfterScraper with the listings collected so far lost at an exception
AfterScraperLosing(all_listings, scraper_name, outcome) ==
    IF outcome.raised THEN <<>>
    ELSE all_listings \o Tagged(outcome.value, scraper_name)

\* all_listings after the try statement of the loop, outcome being what
\* scrape_gpu_listings gave: except Exception: continue
AfterScraper(all_listings, scraper_name, outcome) ==
    IF outcome.raised THEN all_listings
    ELSE all_listings \o Tagged(outcome.value, scraper_name)

RECURSIVE StandardizeFrom(_, _)
\* the loop of standardize_data from the given standardized_listings
StandardizeFrom(listings, standardized) ==
    IF listings = <<>> THEN standardized
    ELSE StandardizeFrom(Tail(listings),
                         standardize_data_iteration(standardized, Head(listings)).listings)

standardize_data(listings) == StandardizeFrom(listings, <<>>)

\* AfterScrapeAll without "if not raw_listings"
AfterScrapeAllUnguarded(listings) == "standardize_data"

\* where run_scraper goes on after scrape_all_sites
AfterScrapeAll(listings) ==
    IF listings = <<>> THEN "run_scraper returned" ELSE "standardize_data"

\* what a scraper may give: the listings of its marketplace, or an exception
ScraperOutcomes(scraper_name) ==
    CASE scraper_name = "ebay" ->
            {Raise, Return(<<>>),
             Return(<<RawListing(Str("MSI RTX 4090 Gaming X Trio 24GB"), Absent,
                                 Str("£1,450.00"), Str("Used - Excellent"),
                                 Str("https://example.com/1"), Str("eBay UK"), Absent),
                      RawListing(Str("Office Chair for sale"), Absent, Str("£20"),
                                 Str("Good"), Str("https://example.com/3"), Str("eBay UK"),
                                 Str("gumtree"))>>)}
      [] scraper_name = "facebook" -> {Raise, Return(<<>>)}
      [] scraper_name = "gumtree" ->
            {Raise,
             Return(<<RawListing(Str("AMD Radeon RX 7800 XT 16GB"), Str("boxed"),
                                 Str("450.00 ono"), Absent, Str("https://example.com/1"),
                                 Str("Gumtree UK"), Absent)>>)}

ComplianceOutcomes == {Raise, Return(Str("compliant"))}
ExportOutcomes == {Raise, Return(Str("output/gpu_listings.xlsx"))}

InitPipeline ==
    /\ pc = "check_compliance"
    /\ argument \in SUBSET {Scrapers[k] : k \in 1..Len(Scrapers)}
    /\ idx = 0
    /\ events = <<>>
    /\ raw_listings = <<>>
    /\ standardized_listings = <<>>
    /\ result = NoOutcome
    /\ raw_listing = NoListing
    /\ gpu_info = <<>>
    /\ title = ""
    /\ description = ""
    /\ self = Catalog
    /\ calls = <<>>
    /\ session = NoSession

PipelineUnchanged ==
    UNCHANGED <<argument, raw_listing, gpu_info, title, description, self, calls, session>>

\* one turn of the loop of check_compliance: an exception is kept as the result
CheckSiteCompliance ==
    /\ pc = "check_compliance"
    /\ idx < Len(Sites)
    /\ \E outcome \in ComplianceOutcomes :
          events' = Append(events, Event("check_site_compliance", Sites[idx + 1], outcome))
    /\ idx' = idx + 1
    /\ UNCHANGED <<pc, raw_listings, standardized_listings, result>>
    /\ PipelineUnchanged

\* check_compliance returns: run_scraper calls scrape_all_sites
StartScraping ==
    /\ pc = "check_compliance"
    /\ idx = Len(Sites)
    /\ pc' = "scrape_all_sites"
    /\ idx' = 0
    /\ UNCHANGED <<events, raw_listings, standardized_listings, result>>
    /\ PipelineUnchanged

\* one turn of the loop of scrape_all_sites, on a scraper that is disabled
SkipScraper ==
    /\ pc = "scrape_all_sites"
    /\ idx < Len(Scrapers)
    /\ Scrapers[idx + 1] \notin argument
    /\ idx' = idx + 1
    /\ UNCHANGED <<pc, events, raw_listings, standardized_listings, result>>
    /\ PipelineUnchanged

\* one turn of the loop of scrape_all_sites, on a scraper that is enabled
ScrapeSite ==
    /\ pc = "scrape_all_sites"
    /\ idx < Len(Scrapers)
    /\ Scrapers[idx + 1] \in argument
    /\ \E outcome \in ScraperOutcomes(Scrapers[idx + 1]) :
          /\ events' = Append(events, Event("scrape_gpu_listings", Scrapers[idx + 1], outcome))
          /\ raw_listings' = AfterScraper(raw_listings, Scrapers[idx + 1], outcome)
    /\ idx' = idx + 1
    /\ UNCHANGED <<pc, standardized_listings, result>>
    /\ PipelineUnchanged

\* scrape_all_sites returns: "if not raw_listings: return 'No data scraped'"
FinishScraping ==
    /\ pc = "scrape_all_sites"
    /\ idx = Len(Scrapers)
    /\ pc' = AfterScrapeAll(raw_listings)
    /\ result' = IF AfterScrapeAll(raw_listings) = "run_scraper returned"
                 THEN Return(Str("No data scraped")) ELSE result
    /\ UNCHANGED <<idx, events, raw_listings, standardized_listings>>
    /\ PipelineUnchanged

StandardizeData ==
    /\ pc = "standardize_data"
    /\ standardized_listings' = standardize_data(raw_listings)
    /\ events' = Append(events, Event("standardize_data", "", Return(<<>>)))
    /\ pc' = "remove_duplicates"
    /\ UNCHANGED <<idx, raw_listings, result>>
    /\ PipelineUnchanged

\* final_listings is kept in standardized_listings
DeduplicateData ==
    /\ pc = "remove_duplicates"
    /\ standardized_listings' = remove_duplicates(standardized_listings)
    /\ events' = Append(events, Event("remove_duplicates", "", Return(<<>>)))
    /\ pc' = "export_to_excel"
    /\ UNCHANGED <<idx, raw_listings, result>>
    /\ PipelineUnchanged

\* export_to_excel returns the output file, or raises: except ...: raise
ExportToExcel ==
    /\ pc = "export_to_excel"
    /\ \E outcome \in ExportOutcomes :
          /\ events' = Append(events, Event("export_to_excel", "", outcome))
          /\ result' = outcome
          /\ pc' = IF outcome.raised THEN "run_scraper raised" ELSE "run_scraper returned"
    /\ UNCHANGED <<idx, raw_listings, standardized_listings>>
    /\ PipelineUnchanged

NextPipeline ==
    \/ CheckSiteCompliance \/ StartScraping \/ SkipScraper \/ ScrapeSite \/ FinishScraping
    \/ StandardizeData \/ DeduplicateData \/ ExportToExcel

SpecPipeline == InitPipeline /\ [][NextPipeline]_vars

(***************************************************************************)
(* FacebookScraper.scrape_gpu_listings, called once.  argument is          *)
(* config.auth; session is the scraper's HTTP session ("none", "open",     *)
(* "closed"); events is the list of the requests made, each with what the  *)
(* server gave.                                                            *)
(***************************************************************************)
LoginUrl == "https://www.facebook.com/login"
SearchUrl == "https://www.facebook.com/marketplace/search/"

\* config.auth: the e-mail and the password, each None, empty or set
AuthOptions == {PyNone, Str(""), Str("user@example.com"), Str("secret"), Str("0")}

\* what a request may meet: a status with a body, a timeout, another exception
Responses ==
    {[status |-> "200", text |-> "<form id=\"login_form\">"],
     [status |-> "200", text |-> "<html>checkpoint</html>"],
     [status |-> "200", text |-> ""],
     [status |-> "429", text |-> "slow down"],
     [status |-> "404", text |-> "not found"],
     [status |-> "TimeoutError", text |-> ""],
     [status |-> "ClientError", text |-> ""]}

\* _has_auth_credentials: facebook_email and facebook_password
_has_auth_credentials(auth) == Truthy(auth.facebook_email) /\ Truthy(auth.facebook_password)

\* make_request: the text of a 200 response, None otherwise; RuntimeError
\* without a session
make_request(session_, response) ==
    IF session_ # "open" THEN Raise
    ELSE IF response.status = "200" THEN Return(<<response.text>>)
    ELSE Return(<<>>)

\* soup.find('form', {'id': 'login_form'})
HasLoginForm(page) == Contains(page, "<form id=\"login_form\">")

\* _authenticate returning True once the login form is found
_authenticate_on_form(auth, login_page) ==
    IF ~_has_auth_credentials(auth) THEN FALSE
    ELSE IF login_page.raised THEN FALSE
    ELSE IF login_page.value = <<>> \/ login_page.value[1] = "" THEN FALSE
    ELSE IF ~HasLoginForm(login_page.value[1]) THEN FALSE
    ELSE TRUE

\* _authenticate, login_page being what make_request gave
_authenticate(auth, login_page) ==
    IF ~_has_auth_credentials(auth) THEN FALSE
    ELSE IF login_page.raised THEN FALSE                         \* except Exception
    ELSE IF login_page.value = <<>> \/ login_page.value[1] = "" THEN FALSE
    ELSE IF ~HasLoginForm(login_page.value[1]) THEN FALSE
    ELSE FALSE

\* the body of "async with self" after _authenticate: the requests it makes
\* and the listings the call is to return
AfterAuthenticate(authenticated, response) ==
    IF authenticated
    THEN [requests |-> <<Event("make_request", SearchUrl, response)>>,
          listings |-> IF response.status = "200" /\ response.text # ""
                       THEN <<response.text>> ELSE <<>>]
    ELSE [requests |-> <<>>, listings |-> <<>>]

InitFacebook ==
    /\ pc = "scrape_gpu_listings"
    /\ argument \in [facebook_email : AuthOptions, facebook_password : AuthOptions]
    /\ session = NoSession
    /\ events = <<>>
    /\ result = NoOutcome
    /\ self = Catalog
    /\ calls = <<>>
    /\ raw_listing = NoListing
    /\ gpu_info = <<>>
    /\ title = ""
    /\ description = ""
    /\ raw_listings = <<>>
    /\ idx = 0
    /\ standardized_listings = <<>>

FacebookUnchanged ==
    UNCHANGED <<argument, self, calls, raw_listing, gpu_info, title, description,
                raw_listings, idx, standardized_listings>>

\* "if not self._has_auth_credentials(): return []"
CheckCredentials ==
    /\ pc = "scrape_gpu_listings"
    /\ pc' = IF _has_auth_credentials(argument) THEN "check_robots_txt"
             ELSE "scrape_gpu_listings returned"
    /\ result' = Return(<<>>)
    /\ UNCHANGED <<session, events>>
    /\ FacebookUnchanged

\* check_robots_txt answers or fails: either way a warning at most
CheckRobotsTxt ==
    /\ pc = "check_robots_txt"
    /\ pc' = "__aenter__"
    /\ UNCHANGED <<session, events, result>>
    /\ FacebookUnchanged

\* "async with self": __aenter__ opens the session
EnterSession ==
    /\ pc = "__aenter__"
    /\ session' = "open"
    /\ pc' = "_authenticate"
    /\ UNCHANGED <<events, result>>
    /\ FacebookUnchanged

\* the body of "async with self": _authenticate requests the login page,
\* and the branch taken makes its requests
Authenticate ==
    /\ pc = "_authenticate"
    /\ \E response \in Responses :
          \E body \in {AfterAuthenticate(
                          _authenticate(argument, make_request(session, response)),
                          response)} :
              /\ events' = Append(events, Event("make_request", LoginUrl, response))
                              \o body.requests
              /\ result' = Return(body.listings)
    /\ pc' = "__aexit__"
    /\ UNCHANGED session
    /\ FacebookUnchanged

\* __aexit__ closes the session, and the call returns
ExitSession ==
    /\ pc = "__aexit__"
    /\ session' = IF session = "open" THEN "closed" ELSE session
    /\ pc' = "scrape_gpu_listings returned"
    /\ UNCHANGED <<events, result>>
    /\ FacebookUnchanged

NextFacebook ==
    CheckCredentials \/ CheckRobotsTxt \/ EnterSession \/ Authenticate \/ ExitSession

SpecFacebook == InitFacebook /\ [][NextFacebook]_vars

(***************************************************************************)
(* _standardize_condition called on a condition and then on what it        *)
(* returned.                                                               *)
(***************************************************************************)
\* the value returned becomes the argument of the second call
StandardizeConditionAgain ==
    /\ pc = "_standardize_condition returned"
    /\ ~result.raised
    /\ argument' = Str(result.value)
    /\ result' = _standardize_condition(Str(result.value))
    /\ pc' = "_standardize_condition returned again"
    /\ UNCHANGED <<gpu_info, raw_listing, title, description, raw_listings, idx,
                   standardized_listings, others>>

NextRecondition == StandardizeCondition \/ StandardizeConditionAgain

SpecRecondition == InitCondition /\ [][NextRecondition]_vars

(***************************************************************************)
(* What the claims speak of.                                               *)
(***************************************************************************)
\* some rule of the group matches the text
RuleMatches(rules, text) == \E k \in 1..Len(rules) : Search(rules[k].pattern, text).ok

AnyRuleMatches(text) ==
    \/ RuleMatches(nvidia_patterns, text)
    \/ RuleMatches(amd_patterns, text)
    \/ RuleMatches(intel_patterns, text)

\* the position the leftmost match of the pattern starts at, 0 when it has none
StartOf(pat, text) ==
    IF Search(pat, text).ok
    THEN CHOOSE i \in 1..(Len(text) + 1) :
            /\ MatchSeq(pat, text, MatchStart(i)).ok
            /\ \A j \in 1..(i - 1) : ~MatchSeq(pat, text, MatchStart(j)).ok
    ELSE 0

\* the first rule of the group, in declaration order, that matches the text
FirstRule(rules, text) ==
    CHOOSE k \in 1..Len(rules) :
        /\ Search(rules[k].pattern, text).ok
        /\ \A j \in 1..(k - 1) : ~Search(rules[j].pattern, text).ok

RulesOf(manufacturer) ==
    CASE manufacturer = "NVIDIA" -> nvidia_patterns
      [] manufacturer = "AMD" -> amd_patterns
      [] manufacturer = "Intel" -> intel_patterns

EndsWith(s, suffix) ==
    Len(s) >= Len(suffix) /\ SubSeq(s, Len(s) - Len(suffix) + 1, Len(s)) = suffix

ExtractReturned == pc = "extract_gpu_info returned"
ListingReturned == pc = "standardize_listing returned"
BatchReturned == pc = "standardize_data returned"

\* the text extract_gpu_info was called on
ExtractText == CombinedText(title, description)

\* the key is absent from the raw listing or holds a string
StringOrAbsent(raw, key) == key \notin DOMAIN raw.fields \/ raw.fields[key].tag = "str"

\* the string the key holds, as given (not trimmed)
RawText(raw, key) == IF key \in DOMAIN raw.fields THEN raw.fields[key].s ELSE ""

TextFieldsAreStrings(raw) ==
    /\ IsMapping(raw)
    /\ StringOrAbsent(raw, "title")
    /\ StringOrAbsent(raw, "description")
    /\ StringOrAbsent(raw, "price")

Accepted == ~result.raised /\ result.value # <<>>

\* title non-empty after trimming and a rule matching lower(title + " " + description)
Acceptable(raw) ==
    /\ Strip(RawText(raw, "title")) # ""
    /\ AnyRuleMatches(Lower(RawText(raw, "title") \o " " \o RawText(raw, "description")))

(***************************************************************************)
(* C1 as stated: for every raw listing whose title, description and price  *)
(* are strings or absent, standardize_listing returns a record if and only *)
(* if the title is non-empty after trimming and some NVIDIA, AMD or Intel  *)
(* rule matches the lowercased title + " " + description.                  *)
(***************************************************************************)
C1_AsStated ==
    (ListingReturned /\ TextFieldsAreStrings(raw_listing))
        => (Accepted <=> Acceptable(raw_listing))

\* the condition is absent, a string, or a false value (None, 0): it cannot raise
ConditionIsUsable(raw) ==
    \/ "condition" \notin DOMAIN raw.fields
    \/ raw.fields["condition"].tag = "str"
    \/ ~Truthy(raw.fields["condition"])

(***************************************************************************)
(* C1 amended: for every raw listing whose title, description and price    *)
(* are strings or absent and whose condition is a string, absent or a      *)
(* false value, standardize_listing returns a record if and only if the    *)
(* title is non-empty after trimming and some rule matches the lowercased  *)
(* title + " " + description; a listing whose condition is a true          *)
(* non-string value is rejected.                                           *)
(***************************************************************************)
C1_Accepts ==
    (ListingReturned /\ TextFieldsAreStrings(raw_listing))
        => /\ ConditionIsUsable(raw_listing) => (Accepted <=> Acceptable(raw_listing))
           /\ ~ConditionIsUsable(raw_listing) => ~Accepted

\* a listing accepted on the strength of its description: no rule matches the title alone
C1_Witness ==
    /\ ListingReturned
    /\ TextFieldsAreStrings(raw_listing)
    /\ ConditionIsUsable(raw_listing)
    /\ Accepted
    /\ ~AnyRuleMatches(Lower(RawText(raw_listing, "title")))

(***************************************************************************)
(* C2: standardize_listing never propagates an exception: whatever the     *)
(* input (a field of a non-string type, an input that is no mapping), the  *)
(* call returns a record or None, and None when the processing failed.     *)
(***************************************************************************)
C2_NeverRaises ==
    ListingReturned
        => /\ ~result.raised
           /\ standardize_listing_try(raw_listing).raised => result.value = <<>>

\* a call whose processing failed after a GPU was identified (the condition is an integer)
C2_Witness ==
    /\ ListingReturned
    /\ gpu_info # <<>>
    /\ standardize_listing_try(raw_listing).raised
    /\ result = Return(<<>>)

RECURSIVE AcceptedRecords(_)
\* the records of the listings standardize_listing accepts, in the order of the listings
AcceptedRecords(listings) ==
    IF listings = <<>> THEN <<>>
    ELSE standardize_listing(Head(listings)).value \o AcceptedRecords(Tail(listings))

\* the listing yields no record: it is rejected, or its processing fails
YieldsNothing(listing) == standardize_listing(listing).value = <<>>

(***************************************************************************)
(* C3: no listing aborts the batch: standardize_data goes through every    *)
(* listing and returns exactly the records of the accepted listings, in    *)
(* input order, however many listings are rejected or fail and wherever    *)
(* they stand in the batch.                                                *)
(***************************************************************************)
C3_BatchNeverAborted ==
    /\ idx <= Len(raw_listings)
    /\ standardized_listings = AcceptedRecords(SubSeq(raw_listings, 1, idx))
    /\ BatchReturned
        => /\ idx = Len(raw_listings)
           /\ standardized_listings = AcceptedRecords(raw_listings)

\* a returned batch whose first listing fails, whose second is rejected and
\* whose last is accepted
C3_Witness ==
    /\ BatchReturned
    /\ Len(raw_listings) = 3
    /\ standardize_listing_try(raw_listings[1]).raised
    /\ ~standardize_listing_try(raw_listings[2]).raised
    /\ YieldsNothing(raw_listings[2])
    /\ ~YieldsNothing(raw_listings[3])
    /\ Len(standardized_listings) = 1

\* the manufacturer of the identity returned, "" when None was returned
Manufacturer == IF gpu_info = <<>> THEN "" ELSE gpu_info[1].manufacturer

\* the position the leftmost match of any rule of the group starts at
GroupStart(rules, text) ==
    CHOOSE i \in 1..(Len(text) + 1) :
        /\ \E k \in 1..Len(rules) : StartOf(rules[k].pattern, text) = i
        /\ \A k \in 1..Len(rules) :
              Search(rules[k].pattern, text).ok => StartOf(rules[k].pattern, text) >= i

(***************************************************************************)
(* C4: extract_gpu_info tries the groups in the order NVIDIA, AMD, Intel   *)
(* and returns the identity of the first group with a matching rule: AMD   *)
(* only if no NVIDIA rule matches, Intel only if neither an NVIDIA nor an  *)
(* AMD rule matches, None only if no rule matches, wherever in the text    *)
(* the matches are.                                                        *)
(***************************************************************************)
C4_GroupOrder ==
    ExtractReturned
        => /\ RuleMatches(nvidia_patterns, ExtractText) => Manufacturer = "NVIDIA"
           /\ Manufacturer = "AMD"
                => /\ ~RuleMatches(nvidia_patterns, ExtractText)
                   /\ RuleMatches(amd_patterns, ExtractText)
           /\ Manufacturer = "Intel"
                => /\ ~RuleMatches(nvidia_patterns, ExtractText)
                   /\ ~RuleMatches(amd_patterns, ExtractText)
                   /\ RuleMatches(intel_patterns, ExtractText)
           /\ gpu_info = <<>> <=> ~AnyRuleMatches(ExtractText)

\* NVIDIA is returned for a text in which an AMD and an Intel match both
\* come before the NVIDIA match
C4_Witness ==
    /\ ExtractReturned
    /\ Manufacturer = "NVIDIA"
    /\ RuleMatches(amd_patterns, ExtractText)
    /\ RuleMatches(intel_patterns, ExtractText)
    /\ GroupStart(amd_patterns, ExtractText) < GroupStart(nvidia_patterns, ExtractText)
    /\ GroupStart(intel_patterns, ExtractText) < GroupStart(nvidia_patterns, ExtractText)

\* the model the rule gives for the text, before any suffix is added
ModelBase(rule, text) ==
    Upper(Format(rule.model_template, Search(rule.pattern, text).group1, ""))

(***************************************************************************)
(* C5: within a group the rules are tried in declaration order and the     *)
(* first rule that matches anywhere in the text decides series and model,  *)
(* also when a rule declared later matches at an earlier position of the   *)
(* text.  The NVIDIA order is RTX 50, RTX 40 (rtx 40xx), RTX 40            *)
(* (rtx 4xxx), RTX 30 (rtx 30xx), RTX 30 (rtx 3xxx), legacy.               *)
(***************************************************************************)
C5_FirstRuleDecides ==
    /\ <<nvidia_patterns[1].series, nvidia_patterns[2].series, nvidia_patterns[3].series,
         nvidia_patterns[4].series, nvidia_patterns[5].series, nvidia_patterns[6].series>>
       = <<"RTX 50", "RTX 40", "RTX 40", "RTX 30", "RTX 30", "RTX">>
    /\ (ExtractReturned /\ gpu_info # <<>>)
        => /\ gpu_info[1].series
                = RulesOf(Manufacturer)[FirstRule(RulesOf(Manufacturer), ExtractText)].series
           /\ StartsAt(gpu_info[1].model, 1,
                       ModelBase(RulesOf(Manufacturer)[FirstRule(RulesOf(Manufacturer),
                                                                 ExtractText)],
                                 ExtractText))

\* the first matching rule decides although a rule declared after it, of
\* another series, matches earlier in the text
C5_Witness ==
    /\ ExtractReturned
    /\ gpu_info # <<>>
    /\ \E j \in 1..Len(RulesOf(Manufacturer)) :
          /\ j > FirstRule(RulesOf(Manufacturer), ExtractText)
          /\ Search(RulesOf(Manufacturer)[j].pattern, ExtractText).ok
          /\ RulesOf(Manufacturer)[j].series # gpu_info[1].series
          /\ StartOf(RulesOf(Manufacturer)[j].pattern, ExtractText)
                < StartOf(RulesOf(Manufacturer)[FirstRule(RulesOf(Manufacturer),
                                                           ExtractText)].pattern,
                          ExtractText)

\* the raw listing of the end-to-end scenario
Scenario ==
    RawListing(Str("MSI RTX 4090 Gaming X Trio 24GB"), Absent, Str("£1,450.00"),
               Str("Used - Excellent"), Absent, Absent, Absent)

\* the fields of the scenario's record that do not depend on the condition
ScenarioIdentity(record) ==
    /\ record.gpu_manufacturer = "NVIDIA"
    /\ record.gpu_series = "RTX 40"
    /\ record.gpu_model = "4090"
    /\ record.vram_gb = <<24>>
    /\ record.card_manufacturer = <<"MSI">>
    /\ record.standardized_price = <<145000>>

(***************************************************************************)
(* C6 as stated: standardizing {title: "MSI RTX 4090 Gaming X Trio 24GB",  *)
(* price: "£1,450.00", condition: "Used - Excellent"} yields a record with *)
(* NVIDIA, RTX 40, 4090, 24 GB, MSI, price 1450.0 and condition "Good".    *)
(***************************************************************************)
C6_AsStated ==
    (ListingReturned /\ raw_listing = Scenario)
        => /\ Accepted
           /\ ScenarioIdentity(result.value[1])
           /\ result.value[1].condition = "Good"

(***************************************************************************)
(* C6 amended: the same scenario yields a record with NVIDIA, RTX 40,      *)
(* 4090, 24 GB, MSI, price 1450.0 and condition "Like New": "excellent" is *)
(* a variant of "like new", which is scanned before "good".                *)
(***************************************************************************)
C6_Scenario ==
    (ListingReturned /\ raw_listing = Scenario)
        => /\ Accepted
           /\ ScenarioIdentity(result.value[1])
           /\ result.value[1].condition = "Like New"

\* standardize_listing has returned from the scenario's listing with a record
C6_Witness == ListingReturned /\ raw_listing = Scenario /\ Accepted

\* the identity returned is the one given
Yields(manufacturer, series) ==
    /\ gpu_info # <<>>
    /\ gpu_info[1].manufacturer = manufacturer
    /\ gpu_info[1].series = series

(***************************************************************************)
(* C7 as stated: for all text containing "RTX 4070 Ti" in any letter case  *)
(* (the text is lowercased before matching), with any text around it,      *)
(* extract_gpu_info yields NVIDIA, series "RTX 40", a model ending in "Ti".*)
(***************************************************************************)
C7_AsStated ==
    (ExtractReturned /\ Contains(ExtractText, "rtx 4070 ti"))
        => /\ Yields("NVIDIA", "RTX 40")
           /\ EndsWith(gpu_info[1].model, "Ti")

(***************************************************************************)
(* C7 amended: for all text containing "RTX 4070 Ti" in any letter case in *)
(* which the RTX 50 rule (rtx 50dd) matches nowhere, extract_gpu_info      *)
(* yields NVIDIA, series "RTX 40" and a model ending in "Ti".              *)
(***************************************************************************)
C7_Rtx4070Ti ==
    (/\ ExtractReturned
     /\ Contains(ExtractText, "rtx 4070 ti")
     /\ ~Search(nvidia_patterns[1].pattern, ExtractText).ok)
        => /\ Yields("NVIDIA", "RTX 40")
           /\ EndsWith(gpu_info[1].model, "Ti")

\* "rtx 4070 ti" with an AMD card named before it
C7_Witness ==
    /\ ExtractReturned
    /\ Contains(ExtractText, "rtx 4070 ti")
    /\ ~Search(nvidia_patterns[1].pattern, ExtractText).ok
    /\ ~StartsAt(ExtractText, 1, "rtx 4070 ti")
    /\ RuleMatches(amd_patterns, ExtractText)
    /\ Yields("NVIDIA", "RTX 40")

(***************************************************************************)
(* C8 as stated: for all text containing "RX 7800 XT" in any letter case,  *)
(* with any text around it, extract_gpu_info yields AMD, series "RX 7000"  *)
(* and model "7800 XT".                                                    *)
(***************************************************************************)
C8_AsStated ==
    (ExtractReturned /\ Contains(ExtractText, "rx 7800 xt"))
        => /\ Yields("AMD", "RX 7000")
           /\ gpu_info[1].model = "7800 XT"

(***************************************************************************)
(* C8 amended: for all text containing "RX 7800 XT" in any letter case in  *)
(* which no NVIDIA rule matches and no other RX 7000 card (rx 7ddd) is     *)
(* named before the first "RX 7800 XT", extract_gpu_info yields AMD,       *)
(* series "RX 7000" and model "7800 XT".                                   *)
(***************************************************************************)
C8_Rx7800Xt ==
    (/\ ExtractReturned
     /\ Contains(ExtractText, "rx 7800 xt")
     /\ ~RuleMatches(nvidia_patterns, ExtractText)
     /\ StartsAt(ExtractText, StartOf(amd_patterns[1].pattern, ExtractText), "rx 7800 xt"))
        => /\ Yields("AMD", "RX 7000")
           /\ gpu_info[1].model = "7800 XT"

\* "rx 7800 xt" with another AMD card or an Intel card named after it
C8_Witness ==
    /\ ExtractReturned
    /\ Contains(ExtractText, "rx 7800 xt")
    /\ ~RuleMatches(nvidia_patterns, ExtractText)
    /\ StartsAt(ExtractText, StartOf(amd_patterns[1].pattern, ExtractText), "rx 7800 xt")
    /\ \/ Search(amd_patterns[3].pattern, ExtractText).ok
       \/ RuleMatches(intel_patterns, ExtractText)
    /\ Yields("AMD", "RX 7000")

(***************************************************************************)
(* C9 as stated: for all text containing "Arc B580" in any letter case,    *)
(* with any text around it, extract_gpu_info yields Intel, series "Arc"    *)
(* and model "B580".                                                       *)
(***************************************************************************)
C9_AsStated ==
    (ExtractReturned /\ Contains(ExtractText, "arc b580"))
        => /\ Yields("Intel", "Arc")
           /\ gpu_info[1].model = "B580"

(***************************************************************************)
(* C9 amended: for all text containing "Arc B580" in any letter case in    *)
(* which no NVIDIA and no AMD rule matches and no other Arc card (arc      *)
(* addd, arc bddd) is named before the first "Arc B580", extract_gpu_info  *)
(* yields Intel, series "Arc" and model "B580".                            *)
(***************************************************************************)
C9_ArcB580 ==
    (/\ ExtractReturned
     /\ Contains(ExtractText, "arc b580")
     /\ ~RuleMatches(nvidia_patterns, ExtractText)
     /\ ~RuleMatches(amd_patterns, ExtractText)
     /\ StartsAt(ExtractText, StartOf(intel_patterns[1].pattern, ExtractText), "arc b580"))
        => /\ Yields("Intel", "Arc")
           /\ gpu_info[1].model = "B580"

\* "arc b580" with another Arc card named after it
C9_Witness ==
    /\ ExtractReturned
    /\ Contains(ExtractText, "arc b580")
    /\ ~RuleMatches(nvidia_patterns, ExtractText)
    /\ ~RuleMatches(amd_patterns, ExtractText)
    /\ StartsAt(ExtractText, StartOf(intel_patterns[1].pattern, ExtractText), "arc b580")
    /\ Contains(ExtractText, "arc a770")
    /\ Yields("Intel", "Arc")

\* the text the identity in gpu_info was extracted from
TextUsed ==
    IF pc = "standardize_listing returned"
    THEN CombinedText(Text(raw_listing, "title"), Text(raw_listing, "description"))
    ELSE ExtractText

WellFormed(manufacturer, series, model, confidence_score) ==
    /\ manufacturer \in {"NVIDIA", "AMD", "Intel"}
    /\ series # ""
    /\ model # ""
    /\ confidence_score = MATCH_CONFIDENCE

(***************************************************************************)
(* C10: every identity extract_gpu_info returns and every record           *)
(* standardize_listing returns has its manufacturer in {NVIDIA, AMD,       *)
(* Intel}, a non-empty series, a non-empty model and the confidence score  *)
(* 0.9, and no other; an identity is produced only when some rule matched  *)
(* the text.                                                               *)
(***************************************************************************)
C10_IdentityWellFormed ==
    /\ MATCH_CONFIDENCE = 90
    /\ gpu_info # <<>>
        => /\ WellFormed(gpu_info[1].manufacturer, gpu_info[1].series, gpu_info[1].model,
                         gpu_info[1].confidence_score)
           /\ AnyRuleMatches(TextUsed)
    /\ (ListingReturned /\ Accepted)
        => /\ WellFormed(result.value[1].gpu_manufacturer, result.value[1].gpu_series,
                         result.value[1].gpu_model, result.value[1].confidence_score)
           /\ gpu_info # <<>>

\* a record for an Intel card has been returned
C10_Witness ==
    /\ ListingReturned
    /\ Accepted
    /\ result.value[1].gpu_manufacturer = "Intel"
    /\ result.value[1].confidence_score = MATCH_CONFIDENCE

(***************************************************************************)
(* C11: the model of an NVIDIA identity ends with " Ti" if and only if     *)
(* "ti" occurs anywhere in the lowercased title + " " + description,       *)
(* whichever NVIDIA rule matched and wherever the "ti" stands; the model   *)
(* of an AMD or Intel identity never ends with " Ti".                      *)
(***************************************************************************)
C11_TiSuffix ==
    (ExtractReturned /\ gpu_info # <<>>)
        => /\ Manufacturer = "NVIDIA"
                => (EndsWith(gpu_info[1].model, " Ti") <=> Contains(ExtractText, "ti"))
           /\ Manufacturer \in {"AMD", "Intel"} => ~EndsWith(gpu_info[1].model, " Ti")

\* an NVIDIA model that gets " Ti" from a "ti" that does not follow its number
C11_Witness ==
    /\ ExtractReturned
    /\ Manufacturer = "NVIDIA"
    /\ EndsWith(gpu_info[1].model, " Ti")
    /\ ~Contains(ExtractText,
                 ModelBase(nvidia_patterns[FirstRule(nvidia_patterns, ExtractText)],
                           ExtractText) \o " ti")

PriceReturned == pc = "extract_price returned"

\* none, or a price of 10 to 10000 pounds (prices are in hundredths)
NoneOrInBand(price) == price = <<>> \/ (1000 <= price[1] /\ price[1] <= 1000000)

(***************************************************************************)
(* C12: for every price text extract_price returns none or a price p with  *)
(* 10 <= p <= 10000, and none for the empty text ("£50000" gives none); so *)
(* the standardized_price of every standardized record is none or lies in  *)
(* [10, 10000].                                                            *)
(***************************************************************************)
C12_PriceBand ==
    /\ PriceReturned
        => /\ NoneOrInBand(result.value)
           /\ argument \in {"", "£50000"} => result.value = <<>>
    /\ (ListingReturned /\ Accepted) => NoneOrInBand(result.value[1].standardized_price)

\* a price text whose first pattern matches an amount above the band: none is returned
C12_Witness ==
    /\ PriceReturned
    /\ argument = "£50000"
    /\ result = Return(<<>>)

\* the qualifiers, in the order the code lists them
Qualifiers == <<"ono", "or best offer", "obo", "neg", "negotiable">>

\* the first qualifier that stands at position i of s, 0 when none does
QualifierAt(s, i) ==
    IF \E q \in 1..Len(Qualifiers) : StartsAt(s, i, Qualifiers[q])
    THEN CHOOSE q \in 1..Len(Qualifiers) :
            /\ StartsAt(s, i, Qualifiers[q])
            /\ \A r \in 1..(q - 1) : ~StartsAt(s, i, Qualifiers[r])
    ELSE 0

RECURSIVE WithoutQualifiers(_, _)
\* s from position i on with every qualifier met from left to right taken out
WithoutQualifiers(s, i) ==
    IF i > Len(s) THEN ""
    ELSE IF QualifierAt(s, i) # 0
         THEN WithoutQualifiers(s, i + Len(Qualifiers[QualifierAt(s, i)]))
         ELSE Ch(s, i) \o WithoutQualifiers(s, i + 1)

\* the text the price patterns are tried on
Cleaned == WithoutQualifiers(Lower(argument), 1)

\* the amount of the leftmost match of the pattern k, thousands commas removed
AmountOf(k, cleaned) ==
    ParseFloat(RemoveAll(Search(price_patterns[k], cleaned).group1, ","))

\* the leftmost match of the pattern k lies in the band 10..10000
MatchInBand(k, cleaned) ==
    /\ Search(price_patterns[k], cleaned).ok
    /\ 1000 <= AmountOf(k, cleaned)
    /\ AmountOf(k, cleaned) <= 1000000

(***************************************************************************)
(* C13: extract_price lowercases the text, takes out every occurrence of   *)
(* the qualifiers ono, or best offer, obo, neg, negotiable, and returns    *)
(* the amount (commas removed) of the first of the patterns "£N", "N£",    *)
(* "£ N", bare number whose leftmost match lies in 10..10000; a pattern    *)
(* whose leftmost match is outside the band is skipped.  "£450.00" and     *)
(* "450.00 ono" both give 450.0.                                           *)
(***************************************************************************)
C13_FirstPatternInBand ==
    PriceReturned
        => /\ argument \in {"£450.00", "450.00 ono"} => result.value = <<45000>>
           /\ argument # ""
                => /\ \A k \in 1..Len(price_patterns) :
                         (/\ MatchInBand(k, Cleaned)
                          /\ \A j \in 1..(k - 1) : ~MatchInBand(j, Cleaned))
                            => result.value = <<AmountOf(k, Cleaned)>>
                   /\ (\A k \in 1..Len(price_patterns) : ~MatchInBand(k, Cleaned))
                        => result.value = <<>>

\* the pattern "£N" matches an amount below the band and is skipped; a
\* later pattern gives the price, after a qualifier was taken out
C13_Witness ==
    /\ PriceReturned
    /\ Search(price_patterns[1], Cleaned).ok
    /\ ~MatchInBand(1, Cleaned)
    /\ result.value # <<>>
    /\ Cleaned # Lower(argument)

VramReturned == pc = "_extract_vram returned"

\* the number the leftmost match of the shape k captures
VramOfShape(k, text) == ParseInt(Search(vram_patterns[k], Lower(text)).group1)

\* the leftmost match of the shape k captures a number in 1..24
ShapeInRange(k, text) ==
    /\ Search(vram_patterns[k], Lower(text)).ok
    /\ 1 <= VramOfShape(k, text)
    /\ VramOfShape(k, text) <= 24

(***************************************************************************)
(* C14: _extract_vram tries the four shapes in order ("N gb vram",         *)
(* "N gb[gddr*]", "Ngb", "vram: N gb") and returns the integer of the      *)
(* first shape whose leftmost match lies in 1..24, going on to the next    *)
(* shape when the number matched is out of range, and none when no shape   *)
(* gives a number in range; so the result is none or an integer in 1..24.  *)
(* "12GB GDDR6X" gives 12, "33GB" gives none, "" gives none.               *)
(***************************************************************************)
C14_VramInRange ==
    VramReturned
        => /\ result.value = <<>> \/ (1 <= result.value[1] /\ result.value[1] <= 24)
           /\ argument = "12GB GDDR6X" => result.value = <<12>>
           /\ argument \in {"33GB", ""} => result.value = <<>>
           /\ \A k \in 1..Len(vram_patterns) :
                 (/\ ShapeInRange(k, argument)
                  /\ \A j \in 1..(k - 1) : ~ShapeInRange(j, argument))
                    => result.value = <<VramOfShape(k, argument)>>
           /\ (\A k \in 1..Len(vram_patterns) : ~ShapeInRange(k, argument))
                => result.value = <<>>

\* the first three shapes match a number out of range, the fourth gives the result
C14_Witness ==
    /\ VramReturned
    /\ \A k \in 1..3 :
          Search(vram_patterns[k], Lower(argument)).ok /\ ~ShapeInRange(k, argument)
    /\ result.value # <<>>

ConditionReturned == pc = "_standardize_condition returned"

\* the fixed vocabulary
StandardConditions == {"New", "Like New", "Good", "Fair", "Poor", "Unknown"}

\* the categories in the order they are scanned, as they are returned
Categories == <<"New", "Like New", "Good", "Fair", "Poor">>

\* a variant of the category k occurs in the lowercased, trimmed condition
CategoryOccurs(k, condition) ==
    \E v \in 1..Len(condition_map[k].variants) :
        Contains(Strip(Lower(condition)), condition_map[k].variants[v])

NoVariantOccurs(condition) == \A k \in 1..Len(condition_map) : ~CategoryOccurs(k, condition)

\* the raw condition of the listing, '' when the key is absent
RawCondition(raw) == Get(raw, "condition", Str(""))

(***************************************************************************)
(* C15 as stated: the condition normalizer maps every condition string to  *)
(* one of New, Like New, Good, Fair, Poor, Unknown, and the condition      *)
(* field of every standardized record is one of these six values.          *)
(***************************************************************************)
C15_AsStated ==
    /\ (ConditionReturned /\ argument.tag = "str")
        => (~result.raised /\ result.value \in StandardConditions)
    /\ (ListingReturned /\ Accepted) => result.value[1].condition \in StandardConditions

(***************************************************************************)
(* C15 amended: the condition normalizer maps a condition string to one of *)
(* New, Like New, Good, Fair, Poor when a variant of that category occurs  *)
(* in it, to Unknown when it is empty, and otherwise to the input itself,  *)
(* title-cased; the condition field of every standardized record is one of *)
(* the six values or the title-cased raw condition in which no variant     *)
(* occurs.                                                                 *)
(***************************************************************************)
C15_VocabularyOrInput ==
    /\ (ConditionReturned /\ argument.tag = "str")
        => /\ ~result.raised
           /\ \/ result.value \in StandardConditions
              \/ /\ NoVariantOccurs(argument.s)
                 /\ result.value = Title(argument.s)
    /\ (ListingReturned /\ Accepted)
        => \/ result.value[1].condition \in StandardConditions
           \/ /\ RawCondition(raw_listing).tag = "str"
              /\ NoVariantOccurs(RawCondition(raw_listing).s)
              /\ result.value[1].condition = Title(RawCondition(raw_listing).s)

\* a record whose condition is none of the six values
C15_Witness ==
    /\ ListingReturned
    /\ Accepted
    /\ result.value[1].condition \notin StandardConditions

(***************************************************************************)
(* C16 as stated: the normalizer returns "Unknown" only for an empty or    *)
(* absent condition; for a non-empty condition in which no variant occurs  *)
(* it returns the input title-cased ("slightly scuffed" gives "Slightly    *)
(* Scuffed"), never "Unknown".                                             *)
(***************************************************************************)
C16_AsStated ==
    /\ (ConditionReturned /\ argument.tag = "str")
        => /\ result = Return("Unknown") => argument.s = ""
           /\ (argument.s # "" /\ NoVariantOccurs(argument.s))
                => (result = Return(Title(argument.s)) /\ result.value # "Unknown")
    /\ (ListingReturned /\ Accepted /\ RawCondition(raw_listing).tag = "str")
        => (result.value[1].condition = "Unknown" => RawCondition(raw_listing).s = "")

(***************************************************************************)
(* C16 amended: the normalizer returns "Unknown" only for an empty or      *)
(* absent condition (or one that is None or 0) and for a condition that    *)
(* itself reads "unknown" in some letter case; for a non-empty condition   *)
(* in which no variant occurs it returns the input title-cased ("slightly  *)
(* scuffed" gives "Slightly Scuffed").                                     *)
(***************************************************************************)
C16_UnknownOnlyFromInput ==
    /\ ConditionReturned
        => /\ ~Truthy(argument) => result = Return("Unknown")
           /\ result = Return("Unknown")
                => \/ ~Truthy(argument)
                   \/ argument.tag = "str" /\ Lower(argument.s) = "unknown"
           /\ argument = Str("slightly scuffed") => result = Return("Slightly Scuffed")
           /\ (argument.tag = "str" /\ argument.s # "" /\ NoVariantOccurs(argument.s))
                => result = Return(Title(argument.s))
    /\ (ListingReturned /\ Accepted /\ result.value[1].condition = "Unknown")
        => \/ ~Truthy(RawCondition(raw_listing))
           \/ Lower(RawCondition(raw_listing).s) = "unknown"

\* a condition in which no variant occurs comes back title-cased, not as it was given
C16_Witness ==
    /\ ConditionReturned
    /\ argument.tag = "str"
    /\ argument.s # ""
    /\ NoVariantOccurs(argument.s)
    /\ result.value # argument.s
    /\ result.value # "Unknown"

\* the first category, in scanning order, of which a variant occurs; 0 when none
FirstCategory(condition) ==
    IF NoVariantOccurs(condition) THEN 0
    ELSE CHOOSE k \in 1..Len(Categories) :
            /\ CategoryOccurs(k, condition)
            /\ \A j \in 1..(k - 1) : ~CategoryOccurs(j, condition)

\* the position the variant first occurs at in the lowercased condition
PositionOf(variant, condition) ==
    CHOOSE i \in 1..Len(condition) :
        /\ StartsAt(Lower(condition), i, variant)
        /\ \A j \in 1..(i - 1) : ~StartsAt(Lower(condition), j, variant)

(***************************************************************************)
(* C17: for a non-empty condition the normalizer scans the categories in   *)
(* the order New, Like New, Good, Fair, Poor and returns the first one     *)
(* that has a variant occurring in the lowercased, trimmed input; when     *)
(* variants of several categories occur, the earliest category is          *)
(* returned, wherever the variants stand in the input.                     *)
(***************************************************************************)
C17_FirstCategory ==
    /\ Len(condition_map) = Len(Categories)
    /\ \A k \in 1..Len(Categories) : Lower(Categories[k]) = condition_map[k].standard_condition
    /\ (ConditionReturned /\ argument.tag = "str" /\ argument.s # ""
        /\ ~NoVariantOccurs(argument.s))
          => result = Return(Categories[FirstCategory(argument.s)])

\* "New" is returned for a condition in which "good" stands before "new"
C17_Witness ==
    /\ ConditionReturned
    /\ argument.tag = "str"
    /\ Contains(Lower(argument.s), "good")
    /\ Contains(Lower(argument.s), "new")
    /\ PositionOf("good", argument.s) < PositionOf("new", argument.s)
    /\ result = Return("New")

CardReturned == pc = "_extract_card_manufacturer returned"

\* the brands in table order
Brands ==
    <<"MSI", "ASUS", "Gigabyte", "EVGA", "Sapphire", "PowerColor", "XFX", "Zotac", "Palit",
      "Gainward", "PNY", "Inno3D", "Manli">>

\* an alias of the brand k matches the text
BrandMatches(k, text) ==
    \E a \in 1..Len(manufacturer_patterns[k].patterns) :
        Search(manufacturer_patterns[k].patterns[a], Lower(text)).ok

\* the position the brand's name first occurs at in the lowercased text
BrandPosition(k, text) ==
    CHOOSE i \in 1..Len(text) :
        /\ StartsAt(Lower(text), i, Lower(Brands[k]))
        /\ \A j \in 1..(i - 1) : ~StartsAt(Lower(text), j, Lower(Brands[k]))

(***************************************************************************)
(* C18: _extract_card_manufacturer tests the brands in table order (MSI,   *)
(* ASUS, Gigabyte, EVGA, Sapphire, PowerColor, XFX, Zotac, Palit,          *)
(* Gainward, PNY, Inno3D, Manli) and returns the first brand with an alias *)
(* matching the text, whichever brand stands first in the text; it returns *)
(* none if and only if no alias of any brand matches.                      *)
(***************************************************************************)
C18_FirstBrand ==
    /\ Len(manufacturer_patterns) = Len(Brands)
    /\ \A k \in 1..Len(Brands) : manufacturer_patterns[k].manufacturer = Brands[k]
    /\ CardReturned
        => /\ \A k \in 1..Len(Brands) :
                 (/\ BrandMatches(k, argument)
                  /\ \A j \in 1..(k - 1) : ~BrandMatches(j, argument))
                    => result.value = <<Brands[k]>>
           /\ result.value = <<>> <=> \A k \in 1..Len(Brands) : ~BrandMatches(k, argument)

\* two brands match and the one returned stands after the other in the text
C18_Witness ==
    /\ CardReturned
    /\ result.value # <<>>
    /\ \E k, j \in 1..Len(Brands) :
          /\ result.value = <<Brands[k]>>
          /\ j > k
          /\ BrandMatches(j, argument)
          /\ BrandPosition(j, argument) < BrandPosition(k, argument)

TargetsReturned == pc = "validate_gpu_targets returned"

\* the list configured for the manufacturer
TargetsOf(manufacturer, config) ==
    CASE manufacturer = "NVIDIA" -> config.nvidia_series
      [] manufacturer = "AMD" -> config.amd_series
      [] manufacturer = "Intel" -> config.intel_models

\* an entry of the list is a substring of the model, letter case apart
SomeTargetInModel(targets, model) ==
    \E k \in 1..Len(targets) : Contains(Lower(model), Lower(targets[k]))

(***************************************************************************)
(* C19: for every identity and configuration validate_gpu_targets returns  *)
(* true if and only if the list configured for the identity's manufacturer *)
(* (nvidia_series, amd_series or intel_models) has an entry that is a      *)
(* substring of the identity's model, both compared case-insensitively,    *)
(* for all three manufacturers and for entries in any letter case.         *)
(***************************************************************************)
C19_TargetFilter ==
    TargetsReturned
        => (result.value
              <=> SomeTargetInModel(TargetsOf(gpu_info[1].manufacturer, argument),
                                    gpu_info[1].model))

\* the keys handed on as they are, none when absent
PassThroughKeys ==
    {"url", "scraped_at", "listing_type", "location", "seller_info", "shipping",
     "posted_date", "image_url"}

\* the value of the key in the raw listing, the default when the key is absent
RawValue(raw, key, default) ==
    IF key \in DOMAIN raw.fields THEN raw.fields[key] ELSE default

(***************************************************************************)
(* C20: in every standardized record url, scraped_at, listing_type,        *)
(* location, seller_info, shipping, posted_date and image_url equal the    *)
(* raw listing's values of the same keys (none when absent); is_sold and   *)
(* is_featured equal the raw values and are false when absent; marketplace *)
(* is the raw 'marketplace' when that key is present and the raw 'source'  *)
(* otherwise; title, description and price_text are the trimmed raw title, *)
(* description and price.                                                  *)
(***************************************************************************)
C20_PassThrough ==
    (ListingReturned /\ Accepted)
        => /\ \A key \in PassThroughKeys :
                 result.value[1][key] = RawValue(raw_listing, key, PyNone)
           /\ result.value[1].is_sold = RawValue(raw_listing, "is_sold", PyBool("False"))
           /\ result.value[1].is_featured
                = RawValue(raw_listing, "is_featured", PyBool("False"))
           /\ result.value[1].marketplace
                = IF "marketplace" \in DOMAIN raw_listing.fields
                  THEN raw_listing.fields["marketplace"]
                  ELSE RawValue(raw_listing, "source", PyNone)
           /\ result.value[1].title = Strip(RawText(raw_listing, "title"))
           /\ result.value[1].description = Strip(RawText(raw_listing, "description"))
           /\ result.value[1].price_text = Strip(RawText(raw_listing, "price"))

\* a record of a listing that has a marketplace of None and a source, some of
\* the other keys and not the rest, and texts that needed trimming
C20_Witness ==
    /\ ListingReturned
    /\ Accepted
    /\ {"marketplace", "source", "is_sold", "location"} \subseteq DOMAIN raw_listing.fields
    /\ {"is_featured", "shipping"} \cap DOMAIN raw_listing.fields = {}
    /\ result.value[1].marketplace = PyNone
    /\ result.value[1].is_featured = PyBool("False")
    /\ result.value[1].title # RawText(raw_listing, "title")

\* the raw listing a concurrent call is given
GivenTo(t) == raw_listings[calls[t].raw_listing]

\* every call that has returned gave what standardize_listing gives alone
ReturnedAsAlone ==
    \A t \in Threads :
        calls[t].pc = "returned" => calls[t].result = standardize_listing(GivenTo(t))

(***************************************************************************)
(* C21: the standardizer is stateless across calls: no step of a call to   *)
(* standardize_listing changes the pattern catalog or a raw listing, and   *)
(* however the steps of concurrent calls on one standardizer interleave,   *)
(* each call returns exactly what it returns when run alone on its input.  *)
(***************************************************************************)
C21_Stateless ==
    /\ [][self' = self /\ raw_listings' = raw_listings]_vars
    /\ [](self = Catalog /\ ReturnedAsAlone)

\* two calls were given the same accepted raw listing and both have returned
\* its record
C21_Witness ==
    /\ pc = "concurrent calls"
    /\ \E t, u \in Threads :
          /\ t # u
          /\ calls[t].raw_listing = calls[u].raw_listing
          /\ calls[t].pc = "returned" /\ calls[u].pc = "returned"
          /\ calls[t].result.value # <<>>
          /\ calls[u].result = calls[t].result

RestandardizeReturned == pc = "standardize_listing returned again"

\* the fields of a record that identify the GPU
GpuFields ==
    {"gpu_manufacturer", "gpu_series", "gpu_model", "vram_gb", "card_manufacturer",
     "confidence_score"}

(***************************************************************************)
(* C22: re-standardization is idempotent: when the record of an accepted   *)
(* raw listing is fed back into standardize_listing, the call does not     *)
(* fail, the record is accepted again, and the second record has the same  *)
(* gpu_manufacturer, gpu_series, gpu_model, vram_gb, card_manufacturer and *)
(* confidence_score as the first.                                          *)
(***************************************************************************)
C22_Restandardize ==
    RestandardizeReturned =>
        /\ ~standardize_listing_try(raw_listing).raised
        /\ Accepted
        /\ \A key \in GpuFields : result.value[1][key] = standardized_listings[1][key]

\* a record was fed back whose title and price text the first call had
\* trimmed and whose condition it had rewritten
C22_Witness ==
    /\ RestandardizeReturned
    /\ Accepted
    /\ standardized_listings[1].title = "RX 7800 XT 16GB"
    /\ standardized_listings[1].condition = "Like New"
    /\ standardized_listings[1].vram_gb = <<16>>

StatsReturned == pc = "get_standardization_stats returned"

(***************************************************************************)
(* C23: get_standardization_stats on an empty collection returns the empty *)
(* dict and divides by nothing, so no ZeroDivisionError is raised; on a    *)
(* non-empty collection the divisor of every division is the number of     *)
(* listings, which is positive, and the call does not raise either.        *)
(***************************************************************************)
C23_NoDivisionByZero ==
    StatsReturned =>
        /\ ~result.raised
        /\ argument = <<>> => result.value = <<>>
        /\ argument # <<>> =>
              /\ TotalListings(argument) = Len(argument)
              /\ TotalListings(argument) > 0
              /\ result.value.total_listings = Len(argument)

\* the call on the empty list has returned
C23_Witness == StatsReturned /\ argument = <<>> /\ result = Return(<<>>)

\* the records of the collection that hold a value under the key
Holding(listings, key) ==
    {i \in 1..Len(listings) :
        IF key = "gpu_model" THEN listings[i][key] # "" ELSE listings[i][key] # <<>>}

\* the rate, in tenths, is the percentage count / total to the nearest tenth
NearestTenth(rate, count, total) ==
    /\ 2 * (rate * total - count * 1000) <= total
    /\ 2 * (count * 1000 - rate * total) <= total

RECURSIVE SumOf(_, _)
\* the sum of the field over the records
SumOf(listings, key) ==
    IF listings = <<>> THEN 0 ELSE Head(listings)[key] + SumOf(Tail(listings), key)

RateKeys ==
    [price_extraction_rate |-> "standardized_price", gpu_identification_rate |-> "gpu_model",
     vram_extraction_rate |-> "vram_gb",
     manufacturer_identification_rate |-> "card_manufacturer"]

(***************************************************************************)
(* C24: for a non-empty collection of records of standardize_listing,      *)
(* get_standardization_stats reports total_listings as the number of       *)
(* records, each of the four rates as the percentage, to the nearest       *)
(* tenth, of the records whose standardized_price, gpu_model, vram_gb or   *)
(* card_manufacturer is not None, each rate within [0, 100], and           *)
(* avg_confidence_score as the mean of confidence_score.                   *)
(***************************************************************************)
C24_Rates ==
    (StatsReturned /\ argument # <<>>) =>
        /\ ~result.raised
        /\ result.value.total_listings = Len(argument)
        /\ \A rate \in DOMAIN RateKeys :
              /\ NearestTenth(result.value[rate],
                              Cardinality(Holding(argument, RateKeys[rate])), Len(argument))
              /\ 0 <= result.value[rate] /\ result.value[rate] <= 1000
        /\ result.value.avg_confidence_score * Len(argument)
              = SumOf(argument, "confidence_score")

\* two of three records have a price and one of three a card manufacturer:
\* 66.7 and 33.3
C24_Witness ==
    /\ StatsReturned
    /\ Len(argument) = 3
    /\ ~result.raised
    /\ result.value.price_extraction_rate = 667
    /\ result.value.manufacturer_identification_rate = 333
    /\ result.value.gpu_identification_rate = 1000

DedupReturned == pc = "remove_duplicates returned"

\* the listing has a URL: the key holds a non-empty string
HasUrl(listing) == UrlOf(listing).tag = "str" /\ UrlOf(listing).s # ""

\* an earlier listing of the list has the same URL as the listing at i
DuplicateAt(listings, i) ==
    /\ HasUrl(listings[i])
    /\ \E j \in 1..(i - 1) : UrlOf(listings[j]) = UrlOf(listings[i])

RECURSIVE WithoutDuplicates(_, _)
\* the listings from position i on that are no duplicates, in their order
WithoutDuplicates(listings, i) ==
    IF i > Len(listings) THEN <<>>
    ELSE (IF DuplicateAt(listings, i) THEN <<>> ELSE <<listings[i]>>)
         \o WithoutDuplicates(listings, i + 1)

(***************************************************************************)
(* C25: remove_duplicates removes only duplicates: the output is the input *)
(* in its order without the listings that have the URL of an earlier       *)
(* listing; a listing that is no duplicate of an earlier one, also one     *)
(* whose url is missing or empty, is kept.                                 *)
(***************************************************************************)
C25_OnlyDuplicates ==
    DedupReturned => result.value = WithoutDuplicates(argument, 1)

\* the positions of the events of a stage
EventsOf(stage) == {i \in 1..Len(events) : events[i].stage = stage}

\* the stages of run_scraper in the order of its statements
StageOrder ==
    [check_site_compliance |-> 1, scrape_gpu_listings |-> 2, standardize_data |-> 3,
     remove_duplicates |-> 4, export_to_excel |-> 5]

\* before the event at i, each site had its compliance checked, once
AllSitesCheckedBefore(i) ==
    \A k \in 1..Len(Sites) :
        Cardinality({j \in EventsOf("check_site_compliance") :
                        j < i /\ events[j].name = Sites[k]}) = 1

\* before the event at i, each enabled scraper had been invoked
AllScrapedBefore(i) ==
    \A name \in argument :
        \E j \in EventsOf("scrape_gpu_listings") : j < i /\ events[j].name = name

RunOver == pc \in {"run_scraper returned", "run_scraper raised"}

(***************************************************************************)
(* C26: in every run of run_scraper the calls follow the order compliance  *)
(* check, scraping, standardization, deduplication, export: each site is   *)
(* checked before a scraper is started, every enabled scraper has been     *)
(* invoked before standardize_data, remove_duplicates follows              *)
(* standardize_data, and export_to_excel is called at most once and after  *)
(* remove_duplicates; a run whose scraping gave no raw listing returns     *)
(* "No data scraped" without calling the exporter, and an exception of the *)
(* exporter is raised to the caller.                                       *)
(***************************************************************************)
C26_PipelineOrder ==
    /\ \A i, j \in 1..Len(events) :
          i < j => StageOrder[events[i].stage] <= StageOrder[events[j].stage]
    /\ \A i \in EventsOf("scrape_gpu_listings") : AllSitesCheckedBefore(i)
    /\ \A i \in EventsOf("standardize_data") : AllScrapedBefore(i)
    /\ \A stage \in {"standardize_data", "remove_duplicates", "export_to_excel"} :
          Cardinality(EventsOf(stage)) <= 1
    /\ EventsOf("remove_duplicates") # {} => EventsOf("standardize_data") # {}
    /\ EventsOf("export_to_excel") # {} => EventsOf("remove_duplicates") # {}
    /\ (RunOver /\ raw_listings = <<>>) =>
          /\ result = Return(Str("No data scraped"))
          /\ EventsOf("export_to_excel") = {}
    /\ \A i \in EventsOf("export_to_excel") :
          events[i].outcome.raised => (pc = "run_scraper raised" /\ result = Raise)

\* a run that ended without data, a scraper having raised, has returned
\* "No data scraped"
C26_Witness ==
    /\ pc = "run_scraper returned"
    /\ raw_listings = <<>>
    /\ \E i \in EventsOf("scrape_gpu_listings") : events[i].outcome.raised
    /\ result = Return(Str("No data scraped"))

\* the position of the scraper in self.scrapers
ScraperPosition(name) == CHOOSE k \in 1..Len(Scrapers) : Scrapers[k] = name

\* the scrapers the loop of scrape_all_sites has been through
Iterated ==
    IF pc = "check_compliance" THEN {}
    ELSE IF pc = "scrape_all_sites" THEN {Scrapers[k] : k \in 1..idx}
    ELSE {Scrapers[k] : k \in 1..Len(Scrapers)}

\* the scraper of the marketplace the listing names
ProducerOf(listing) ==
    CASE listing.fields.marketplace = Str("eBay UK") -> "ebay"
      [] listing.fields.marketplace = Str("Gumtree UK") -> "gumtree"

RECURSIVE Collected(_)
\* the listings the scrapers of the events returned, in the order of the events
Collected(evs) ==
    IF evs = <<>> THEN <<>>
    ELSE IF Head(evs).stage = "scrape_gpu_listings" /\ ~Head(evs).outcome.raised
         THEN Head(evs).outcome.value \o Collected(Tail(evs))
    ELSE Collected(Tail(evs))

(***************************************************************************)
(* C27: scrape_all_sites isolates faults: a scraper the configuration      *)
(* disables is never invoked; an exception of a scraper does not stop the  *)
(* loop: every enabled scraper the loop has been through was invoked, in   *)
(* the order ebay, facebook, gumtree, and the listings of the scrapers     *)
(* that returned are all kept, in that order; each listing collected       *)
(* carries as source the name of the scraper that produced it.             *)
(***************************************************************************)
C27_FaultIsolation ==
    /\ \A i \in EventsOf("scrape_gpu_listings") : events[i].name \in argument
    /\ \A i, j \in EventsOf("scrape_gpu_listings") :
          i < j => ScraperPosition(events[i].name) < ScraperPosition(events[j].name)
    /\ \A name \in Iterated \cap argument :
          \E i \in EventsOf("scrape_gpu_listings") : events[i].name = name
    /\ Len(raw_listings) = Len(Collected(events))
    /\ \A i \in 1..Len(raw_listings) :
          /\ \A key \in DOMAIN Collected(events)[i].fields \ {"source", "scraped_at"} :
                raw_listings[i].fields[key] = Collected(events)[i].fields[key]
          /\ raw_listings[i].fields.source = Str(ProducerOf(raw_listings[i]))

\* ebay returned its listings, facebook raised, and gumtree was still
\* invoked and its listing added
C27_Witness ==
    /\ pc = "scrape_all_sites" /\ idx = Len(Scrapers)
    /\ \E i, j, k \in EventsOf("scrape_gpu_listings") :
          /\ i < j /\ j < k
          /\ ~events[i].outcome.raised /\ events[i].outcome.value # <<>>
          /\ events[j].outcome.raised
          /\ ~events[k].outcome.raised
    /\ Len(raw_listings) = 3
    /\ raw_listings[2].fields.source = Str("ebay")
    /\ raw_listings[3].fields.source = Str("gumtree")

FacebookReturned == pc = "scrape_gpu_listings returned"

AllDigits(s) == \A i \in 1..Len(s) : Ch(s, i) \in DigitChars

StartsWith(s, prefix) == StartsAt(s, 1, prefix)

FourDigits(s) == Len(s) = 4 /\ AllDigits(s)

\* the model without the suffix when it ends with it
WithoutSuffix(model, suffix) ==
    IF EndsWith(model, suffix) THEN SubSeq(model, 1, Len(model) - Len(suffix)) ELSE model

\* "7ddd" or "6ddd", optionally followed by " XT" or " GRE"
RadeonForm(model, first) ==
    /\ StartsWith(model, first)
    /\ \E suffix \in {"", " XT", " GRE"} :
          /\ Len(model) = 4 + Len(suffix)
          /\ FourDigits(SubSeq(model, 1, 4))
          /\ EndsWith(model, suffix)

\* A or B followed by three digits
ArcForm(model) ==
    /\ Len(model) = 4
    /\ Ch(model, 1) \in {"A", "B"}
    /\ AllDigits(SubSeq(model, 2, 4))

\* the model starts with none of the numbers of the RTX 30, 40 and 50 series
NoSeriesNumber(model) ==
    ~StartsWith(model, "3") /\ ~StartsWith(model, "4") /\ ~StartsWith(model, "50")

\* what the claim says of every series but the legacy one
SeriesFitsModel(series, model) ==
    /\ series = "RTX 50" => StartsWith(model, "50")
    /\ series = "RTX 40" => StartsWith(model, "4")
    /\ series = "RTX 30" => StartsWith(model, "3")
    /\ series = "RX 7000" => RadeonForm(model, "7")
    /\ series = "RX 6000" => RadeonForm(model, "6")
    /\ series = "Arc" => ArcForm(model)

(***************************************************************************)
(* C29 as stated: in every identity the series fits the model: "RTX 50"    *)
(* with a model starting with "50", "RTX 40" with "4", "RTX 30" with "3",  *)
(* the legacy "RTX" only with a four-digit model that starts with neither  *)
(* "3" nor "4" nor "50", "RX 7000" with "7ddd" and "RX 6000" with "6ddd",  *)
(* each optionally followed by " XT" or " GRE", and "Arc" with A or B and  *)
(* three digits, in upper case.                                            *)
(***************************************************************************)
C29_AsStated ==
    (ExtractReturned /\ gpu_info # <<>>) =>
        /\ SeriesFitsModel(gpu_info[1].series, gpu_info[1].model)
        /\ gpu_info[1].series = "RTX" =>
              (FourDigits(gpu_info[1].model) /\ NoSeriesNumber(gpu_info[1].model))

(***************************************************************************)
(* C29: as stated, except that the model of the legacy series "RTX" is     *)
(* four digits that start with neither "3" nor "4" nor "50", followed by   *)
(* " Ti" when "ti" occurs in the text.                                     *)
(***************************************************************************)
C29_SeriesFitsModel ==
    (ExtractReturned /\ gpu_info # <<>>) =>
        /\ SeriesFitsModel(gpu_info[1].series, gpu_info[1].model)
        /\ gpu_info[1].series = "RTX" =>
              /\ FourDigits(WithoutSuffix(gpu_info[1].model, " Ti"))
              /\ NoSeriesNumber(gpu_info[1].model)
              /\ EndsWith(gpu_info[1].model, " Ti") <=> Contains(ExtractText, "ti")

\* a legacy card in a text with "ti": series "RTX", model "2080 Ti"
C29_Witness ==
    /\ ExtractReturned
    /\ Yields("NVIDIA", "RTX")
    /\ gpu_info[1].model = "2080 Ti"

ReconditionReturned == pc = "_standardize_condition returned again"

(***************************************************************************)
(* C30: condition normalization is idempotent: _standardize_condition      *)
(* applied to what it returned for a condition returns it unchanged, so    *)
(* New, Like New, Good, Fair, Poor and Unknown are fixed points.           *)
(***************************************************************************)
C30_Idempotent ==
    ReconditionReturned => (~result.raised /\ result.value = argument.s)

====
